---------------------------- MODULE Spec2Model ----------------------------
(***************************************************************************)
(* A model of garcon's deployment orchestration: the webhook signature     *)
(* verifier (app/utils.py), the sqlite registry (app/models.py), the       *)
(* services layer (app/services.py) and the entry points that start        *)
(* deployment attempts (app/routes.py).                                    *)
(*                                                                         *)
(* Text is modelled as a sequence of one-character strings, an optional    *)
(* text (Python's None) as a record [none, s].  Registry columns hold      *)
(* atoms: the string "NULL" is SQL NULL / Python None.                     *)
(***************************************************************************)
EXTENDS Integers, Sequences, FiniteSets, TLC

VARIABLES
    vcall,          \* one call of the verifier: its inputs and its result
    secret,         \* app.config['GITHUB_WEBHOOK_SECRET']
    projects,       \* rows of table projects
    deployments,    \* rows of table deployments
    seqProjects,    \* sqlite_sequence of projects (AUTOINCREMENT)
    seqDeployments, \* sqlite_sequence of deployments (AUTOINCREMENT)
    now,            \* CURRENT_TIMESTAMP
    calls,          \* entry-point invocations, in order of arrival
    rcall,          \* the last two registry operations, with their results
    threads,        \* registry calls in progress, statement by statement
    compose,        \* the docker-compose.yml under transformation, and its project
    deploy_log      \* logs/deploy.log, the one file every deploy script appends to

vars == <<vcall, secret, projects, deployments, seqProjects, seqDeployments,
          now, calls, rcall, threads, compose, deploy_log>>

-----------------------------------------------------------------------------
(* Bounds of the model *)

\* longest payload and longest secret given to the verifier
MaxLen == 2
\* entry-point invocations in one run of the orchestrator
MaxCalls == 2
\* registry operations in one run of the registry
MaxOps == 3
\* last value of CURRENT_TIMESTAMP
MaxTime == 1
\* registry calls in progress at the same time
MaxThreads == 2
\* rows a table holds, and the largest limit asked for, in the runs of the
\* registry's queries (SpecQuery)
MaxRows == 3
MaxLimit == 2
\* runs of the compose transformer on one file, and the longest project or
\* service name given to the subdomain derivation
MaxRuns == 2
MaxName == 2

-----------------------------------------------------------------------------
(* Optional text *)

NoneStr == [none |-> TRUE, s |-> <<>>]
Str(s) == [none |-> FALSE, s |-> s]
\* Python's truth value of an optional text: None and "" are falsy
Falsy(x) == x.none \/ x.s = <<>>

\* all sequences over alphabet A of length at most n
RECURSIVE SeqsUpTo(_, _)
SeqsUpTo(A, n) ==
    IF n = 0 THEN {<<>>}
    ELSE LET shorter == SeqsUpTo(A, n - 1)
         IN  shorter \cup {Append(s, a) : s \in {t \in shorter : Len(t) = n - 1}, a \in A}

-----------------------------------------------------------------------------
(* utils.verify_github_webhook *)

\* the byte values of a payload or of an encoded secret
Bytes == {0, 1}
HexDigits == <<"0", "1", "2", "3", "4", "5", "6", "7",
               "8", "9", "a", "b", "c", "d", "e", "f">>
\* hex characters of a digest
DigestLen == 4

\* bijective numbering of a byte string
RECURSIVE NumOf(_)
NumOf(bs) ==
    IF bs = <<>> THEN 0
    ELSE (Head(bs) + 1) + (Cardinality(Bytes) + 1) * NumOf(Tail(bs))

RECURSIVE ToHex(_, _)
ToHex(n, width) ==
    IF width = 0 THEN <<>>
    ELSE Append(ToHex(n \div 16, width - 1), HexDigits[(n % 16) + 1])

\* HMAC's block: a key shorter than the block is filled up with zero bytes
\* before it is used (a longer one would be hashed first; the modelled keys
\* are shorter, as secrets of fewer than 64 bytes are)
BlockLen == MaxLen + 1
RECURSIVE PadKey(_)
PadKey(key) == IF Len(key) >= BlockLen THEN key ELSE PadKey(Append(key, 0))

\* a digest into which the key does not enter
HexDigestNoKey(key, msg) == ToHex(NumOf(msg), DigestLen)

\* hmac.new(key, msg, hashlib.sha256).hexdigest(): a lower-case hex text of
\* fixed length into which the padded key and the message enter.  The
\* stand-in is collision-free on padded keys and messages, as HMAC-SHA256 is
\* taken to be.
HexDigest(key, msg) == ToHex(NumOf(PadKey(key)) * (16 * 16) + NumOf(msg), DigestLen)

Prefix == <<"s", "h", "a", "2", "5", "6", "=">>

\* str.startswith
StartsWith(s, p) == Len(s) >= Len(p) /\ SubSeq(s, 1, Len(p)) = p

\* s[n:]
DropFirst(s, n) == SubSeq(s, n + 1, Len(s))

\* "U+00E9" stands for any character outside ASCII
IsAscii(s) == \A i \in 1..Len(s) : s[i] # "U+00E9"

\* hmac.compare_digest on two str: a TypeError unless both are ASCII
CompareDigest(a, b) ==
    IF ~IsAscii(a) \/ ~IsAscii(b) THEN "TypeError"
    ELSE IF a = b THEN "True" ELSE "False"

\* a verifier that compares the last characters of the header, whatever
\* precedes them
verify_github_webhook_noprefixcheck(payload_body, signature_header, key) ==
    IF Falsy(signature_header) THEN "False"
    ELSE IF Falsy(key) THEN "False"
    ELSE IF Len(signature_header.s) < DigestLen THEN "False"
    ELSE CompareDigest(DropFirst(signature_header.s,
                                 Len(signature_header.s) - DigestLen),
                       HexDigest(key.s, payload_body))

\* "True", "False", or the exception that escapes
verify_github_webhook(payload_body, signature_header, key) ==
    IF Falsy(signature_header) THEN "False"
    ELSE IF Falsy(key) THEN "False"
    ELSE IF ~StartsWith(signature_header.s, Prefix) THEN "False"
    ELSE CompareDigest(DropFirst(signature_header.s, 7),
                       HexDigest(key.s, payload_body))

\* the header a sender makes who signs message msg with key k
SignatureForms == {"good", "noprefix", "sha1", "upper", "noeq", "short",
                   "nonascii", "empty", "none"}
MakeHeader(form, k, msg) ==
    LET d == HexDigest(k, msg) IN
    CASE form = "good"     -> Str(Prefix \o d)
      [] form = "noprefix" -> Str(d)
      [] form = "sha1"     -> Str(<<"s", "h", "a", "1", "=">> \o d)
      [] form = "upper"    -> Str(<<"S", "H", "A", "2", "5", "6", "=">> \o d)
      [] form = "noeq"     -> Str(<<"s", "h", "a", "2", "5", "6">> \o d)
      [] form = "short"    -> Str(Prefix \o SubSeq(d, 1, Len(d) - 1))
      [] form = "nonascii" -> Str(Prefix \o <<"U+00E9">> \o Tail(d))
      [] form = "empty"    -> Str(<<>>)
      [] form = "none"     -> NoneStr

Payloads == SeqsUpTo(Bytes, MaxLen)
SigningKeys == SeqsUpTo(Bytes, MaxLen) \ {<<>>}
ConfiguredKeys == {NoneStr} \cup {Str(k) : k \in SeqsUpTo(Bytes, MaxLen)}

VIdle == [body |-> <<>>, key |-> NoneStr, form |-> "none", sigKey |-> <<>>,
          sigBody |-> <<>>, header |-> NoneStr, result |-> "idle"]

\* one call of the verifier: the header was made by a sender who signed
\* sigBody with sigKey; the receiver holds key and got body
VerifyInputs ==
    {[body |-> b, key |-> k, form |-> f, sigKey |-> sk, sigBody |-> sb,
      header |-> MakeHeader(f, sk, sb), result |-> "idle"] :
        b \in Payloads, k \in ConfiguredKeys, f \in SignatureForms,
        sk \in SigningKeys, sb \in Payloads}

VerifyCall ==
    /\ vcall.result = "idle"
    /\ vcall' = [vcall EXCEPT !.result =
                    verify_github_webhook(vcall.body, vcall.header, vcall.key)]
    /\ UNCHANGED <<secret, projects, deployments, seqProjects, seqDeployments,
                   now, calls, rcall, threads, compose, deploy_log>>

-----------------------------------------------------------------------------
(* models.DatabaseManager: the registry.  db is the content of the database  *)
(* file, t the value of CURRENT_TIMESTAMP.  An operation that writes gives   *)
(* [db, ret]: the database after it and the value it returns.               *)

NULL == "NULL"
\* no compose file is being transformed
NoCompose == [runs |-> 0]
\* Python's truth value of a column value
Truthy(x) == x # NULL /\ x # ""

DB == [projects |-> projects, deployments |-> deployments,
       seqProjects |-> seqProjects, seqDeployments |-> seqDeployments]

\* SELECT * FROM projects WHERE repo_name = ?: the row, or nothing
get_project_by_repo_name(db, repo_name) ==
    {p \in db.projects : p.repo_name = repo_name}

\* SELECT * FROM projects WHERE id = ?
get_project_by_id(db, project_id) ==
    {p \in db.projects : p.id = project_id}

\* the return value None of add_or_update_project
NoId == 0

\* an upsert that stamps created_at again when it updates
add_or_update_project_touch_created(db, t, repo_name, repo_url, local_path, container_id, deployment_uuid) ==
    LET existing == get_project_by_repo_name(db, repo_name) IN
    IF existing # {}
    THEN IF repo_url = NULL
         THEN [db |-> db, ret |-> NoId]
         ELSE LET old == CHOOSE p \in existing : TRUE
                  new == [old EXCEPT !.repo_url = repo_url,
                                     !.local_path = local_path,
                                     !.container_id = container_id,
                                     !.deployment_uuid = deployment_uuid,
                                     !.created_at = t,
                                     !.updated_at = t]
              IN  [db |-> [db EXCEPT !.projects = (@ \ {old}) \cup {new}],
                   ret |-> old.id]
    ELSE IF repo_name = NULL \/ repo_url = NULL
         THEN [db |-> db, ret |-> NoId]
         ELSE LET id == db.seqProjects + 1
                  row == [id |-> id, repo_name |-> repo_name,
                          repo_url |-> repo_url, local_path |-> local_path,
                          container_id |-> container_id,
                          deployment_uuid |-> deployment_uuid,
                          created_at |-> t, updated_at |-> t]
              IN  [db |-> [db EXCEPT !.projects = @ \cup {row},
                                     !.seqProjects = id],
                   ret |-> id]

\* an upsert that inserts without looking for the row
add_or_update_project_always_insert(db, t, repo_name, repo_url, local_path, container_id, deployment_uuid) ==
    IF repo_name = NULL \/ repo_url = NULL
    THEN [db |-> db, ret |-> NoId]
    ELSE LET id == db.seqProjects + 1
             row == [id |-> id, repo_name |-> repo_name,
                     repo_url |-> repo_url, local_path |-> local_path,
                     container_id |-> container_id,
                     deployment_uuid |-> deployment_uuid,
                     created_at |-> t, updated_at |-> t]
         IN  [db |-> [db EXCEPT !.projects = @ \cup {row},
                                !.seqProjects = id],
              ret |-> id]

\* variant: ids without AUTOINCREMENT, one more than the largest id in the
\* table
add_or_update_project_reuses_id(db, t, repo_name, repo_url, local_path, container_id, deployment_uuid) ==
    LET existing == get_project_by_repo_name(db, repo_name) IN
    IF existing # {}
    THEN IF repo_url = NULL
         THEN [db |-> db, ret |-> NoId]
         ELSE LET old == CHOOSE p \in existing : TRUE
                  new == [old EXCEPT !.repo_url = repo_url,
                                     !.local_path = local_path,
                                     !.container_id = container_id,
                                     !.deployment_uuid = deployment_uuid,
                                     !.updated_at = t]
              IN  [db |-> [db EXCEPT !.projects = (@ \ {old}) \cup {new}],
                   ret |-> old.id]
    ELSE IF repo_name = NULL \/ repo_url = NULL
         THEN [db |-> db, ret |-> NoId]
         ELSE LET ids == {q.id : q \in db.projects} \cup {0}
                  id == 1 + CHOOSE m \in ids : \A n \in ids : n <= m
                  row == [id |-> id, repo_name |-> repo_name,
                          repo_url |-> repo_url, local_path |-> local_path,
                          container_id |-> container_id,
                          deployment_uuid |-> deployment_uuid,
                          created_at |-> t, updated_at |-> t]
              IN  [db |-> [db EXCEPT !.projects = @ \cup {row},
                                     !.seqProjects = IF id > @ THEN id ELSE @],
                   ret |-> id]

\* UPDATE ... WHERE repo_name = ? when the row exists, else INSERT; a
\* constraint that fails (repo_name, repo_url NOT NULL) is an IntegrityError,
\* caught: nothing is written and None is returned
add_or_update_project(db, t, repo_name, repo_url, local_path, container_id, deployment_uuid) ==
    LET existing == get_project_by_repo_name(db, repo_name) IN
    IF existing # {}
    THEN IF repo_url = NULL
         THEN [db |-> db, ret |-> NoId]
         ELSE LET old == CHOOSE p \in existing : TRUE
                  new == [old EXCEPT !.repo_url = repo_url,
                                     !.local_path = local_path,
                                     !.container_id = container_id,
                                     !.deployment_uuid = deployment_uuid,
                                     !.updated_at = t]
              IN  [db |-> [db EXCEPT !.projects = (@ \ {old}) \cup {new}],
                   ret |-> old.id]
    ELSE IF repo_name = NULL \/ repo_url = NULL
         THEN [db |-> db, ret |-> NoId]
         ELSE LET id == db.seqProjects + 1
                  row == [id |-> id, repo_name |-> repo_name,
                          repo_url |-> repo_url, local_path |-> local_path,
                          container_id |-> container_id,
                          deployment_uuid |-> deployment_uuid,
                          created_at |-> t, updated_at |-> t]
              IN  [db |-> [db EXCEPT !.projects = @ \cup {row},
                                     !.seqProjects = id],
                   ret |-> id]

\* the row INSERT INTO deployments adds
DeploymentRow(id, t, project_id, status, commit_hash, error_message, container_id, deployment_uuid, deployment_type) ==
    [id |-> id, project_id |-> project_id, status |-> status,
     deploy_time |-> t, commit_hash |-> commit_hash,
     error_message |-> error_message, container_id |-> container_id,
     deployment_uuid |-> deployment_uuid, deployment_type |-> deployment_type]

\* a log that rewrites the open started row instead of inserting
log_deployment_in_place(db, t, project_id, status, commit_hash, error_message, container_id, deployment_uuid, deployment_type) ==
    LET open == {d \in db.deployments :
                    d.project_id = project_id /\ d.status = "started"}
    IN  IF status # "started" /\ open # {}
        THEN LET old == CHOOSE d \in open : \A e \in open : e.id <= d.id
                 new == [old EXCEPT !.status = status,
                                    !.error_message = error_message,
                                    !.container_id = container_id,
                                    !.deployment_uuid = deployment_uuid]
             IN  [db EXCEPT !.deployments = (@ \ {old}) \cup {new}]
        ELSE LET id == db.seqDeployments + 1
             IN  [db EXCEPT !.deployments = @ \cup
                        {DeploymentRow(id, t, project_id, status, commit_hash,
                                       error_message, container_id,
                                       deployment_uuid, deployment_type)},
                            !.seqDeployments = id]

\* INSERT INTO deployments; status NOT NULL.  The foreign key is declared
\* but sqlite does not enforce it (no PRAGMA foreign_keys).
log_deployment(db, t, project_id, status, commit_hash, error_message, container_id, deployment_uuid, deployment_type) ==
    IF project_id = NoId \/ status = NULL
    THEN db
    ELSE LET id == db.seqDeployments + 1
         IN  [db EXCEPT !.deployments = @ \cup
                    {DeploymentRow(id, t, project_id, status, commit_hash,
                                   error_message, container_id,
                                   deployment_uuid, deployment_type)},
                        !.seqDeployments = id]

\* UPDATE projects SET container_id = ?, updated_at = CURRENT_TIMESTAMP
\* WHERE id = ?
update_project_container_id(db, t, project_id, container_id) ==
    [db EXCEPT !.projects =
        {IF p.id = project_id
         THEN [p EXCEPT !.container_id = container_id, !.updated_at = t]
         ELSE p : p \in @}]

\* variant: a delete that takes the project's deployments with it
delete_project_cascade(db, project_id) ==
    [db |-> [db EXCEPT !.projects = {p \in @ : p.id # project_id},
                       !.deployments = {d \in @ : d.project_id # project_id}],
     ret |-> get_project_by_id(db, project_id) # {}]

\* DELETE FROM projects WHERE id = ?; returns whether a row went
delete_project(db, project_id) ==
    [db |-> [db EXCEPT !.projects = {p \in @ : p.id # project_id}],
     ret |-> get_project_by_id(db, project_id) # {}]

\* DELETE FROM deployments WHERE project_id = ?; returns how many rows went
delete_deployment_history(db, project_id) ==
    [db |-> [db EXCEPT !.deployments = {d \in @ : d.project_id # project_id}],
     ret |-> Cardinality({d \in db.deployments : d.project_id = project_id})]

-----------------------------------------------------------------------------
(* services.Services *)

\* A parsed JSON body.  dict: the document is an object.  repo: the key
\* "repository" is absent, a mapping, or another value ("scalar": null, a
\* string, a list); name and url are the mapping's name and html_url, NULL
\* when the key is missing.  head: "head_commit" is absent or falsy
\* ("absent"), a non-empty mapping ("map") or another truthy value
\* ("scalar"); commit is the mapping's id, NULL when it has none.
Payload(dict, repo, name, url, head, commit) ==
    [dict |-> dict, repo |-> repo, name |-> name, url |-> url,
     head |-> head, commit |-> commit]

\* exc: an AttributeError or TypeError escapes (payload.keys() of a
\* non-object, .get of a repository or head_commit that is no mapping,
\* commit_hash[:8] of a head_commit without id)
process_webhook(payload) ==
    IF \/ ~payload.dict
       \/ payload.repo = "scalar"
       \/ payload.head = "scalar"
       \/ (payload.head = "map" /\ payload.commit = NULL)
    THEN [exc |-> TRUE, repo_name |-> NULL, repo_url |-> NULL, commit_hash |-> NULL]
    ELSE [exc |-> FALSE,
          repo_name |-> IF payload.repo = "map" THEN payload.name ELSE NULL,
          repo_url |-> IF payload.repo = "map" THEN payload.url ELSE NULL,
          commit_hash |-> IF payload.head = "map" THEN payload.commit ELSE NULL]

\* ret: the project row, or nothing (None)
get_or_create_project(db, t, repo_name, repo_url) ==
    LET existing == get_project_by_repo_name(db, repo_name) IN
    IF existing # {}
    THEN [db |-> db, ret |-> existing]
    ELSE LET r == add_or_update_project(db, t, repo_name, repo_url, NULL, NULL, NULL)
         IN  IF r.ret # NoId
             THEN [db |-> r.db, ret |-> get_project_by_repo_name(r.db, repo_name)]
             ELSE [db |-> r.db, ret |-> {}]

\* deployment_uuid is only logged: the upsert is called without it
update_project_deployment_info(db, t, repo_name, local_path, container_id, deployment_uuid) ==
    LET existing == get_project_by_repo_name(db, repo_name) IN
    IF existing # {}
    THEN add_or_update_project(db, t, repo_name,
                               (CHOOSE p \in existing : TRUE).repo_url,
                               local_path, container_id, NULL).db
    ELSE db

\* a recorder that copies the container id of every row to the project
log_deployment_status_always_updates(db, t, project_id, status, commit_hash, error_message, container_id, deployment_uuid, deployment_type) ==
    update_project_container_id(
        log_deployment(db, t, project_id, status, commit_hash, error_message,
                       container_id, deployment_uuid, deployment_type),
        t, project_id, container_id)

\* a recorder that inserts a failed row twice
log_deployment_status_twice(db, t, project_id, status, commit_hash, error_message, container_id, deployment_uuid, deployment_type) ==
    LET once == log_deployment(db, t, project_id, status, commit_hash,
                               error_message, container_id, deployment_uuid,
                               deployment_type)
        logged == IF status = "failed"
                  THEN log_deployment(once, t, project_id, status, commit_hash,
                                      error_message, container_id,
                                      deployment_uuid, deployment_type)
                  ELSE once
    IN  IF status = "success" /\ Truthy(container_id)
        THEN update_project_container_id(logged, t, project_id, container_id)
        ELSE logged

\* a recorder that copies a container id to the project whatever the status
log_deployment_status_any_status(db, t, project_id, status, commit_hash, error_message, container_id, deployment_uuid, deployment_type) ==
    LET logged == log_deployment(db, t, project_id, status, commit_hash,
                                 error_message, container_id, deployment_uuid,
                                 deployment_type)
    IN  IF Truthy(container_id)
        THEN update_project_container_id(logged, t, project_id, container_id)
        ELSE logged

\* variant: a failed attempt clears the container of its project
log_deployment_status_failed_clears(db, t, project_id, status, commit_hash, error_message, container_id, deployment_uuid, deployment_type) ==
    LET logged == log_deployment(db, t, project_id, status, commit_hash,
                                 error_message, container_id, deployment_uuid,
                                 deployment_type)
    IN  IF (status = "success" /\ Truthy(container_id)) \/ status = "failed"
        THEN update_project_container_id(logged, t, project_id, container_id)
        ELSE logged

\* variant: no row is recorded for the start of an attempt
log_deployment_status_skips_started(db, t, project_id, status, commit_hash, error_message, container_id, deployment_uuid, deployment_type) ==
    LET logged == IF status = "started" THEN db
                  ELSE log_deployment(db, t, project_id, status, commit_hash,
                                      error_message, container_id, deployment_uuid,
                                      deployment_type)
    IN  IF status = "success" /\ Truthy(container_id)
        THEN update_project_container_id(logged, t, project_id, container_id)
        ELSE logged

\* the row is inserted, then a success with a container id is copied to the
\* project
log_deployment_status(db, t, project_id, status, commit_hash, error_message, container_id, deployment_uuid, deployment_type) ==
    LET logged == log_deployment(db, t, project_id, status, commit_hash,
                                 error_message, container_id, deployment_uuid,
                                 deployment_type)
    IN  IF status = "success" /\ Truthy(container_id)
        THEN update_project_container_id(logged, t, project_id, container_id)
        ELSE logged

-----------------------------------------------------------------------------
(* The external deploy process and the deploy log, as routes.py reads them *)

\* one line of output: lead, whether white space precedes the marker
Line(lead, tag, val) == [lead |-> lead, tag |-> tag, val |-> val]

\* how subprocess.run(..., check=True, timeout=600) ends: kind is "exit0",
\* "nonzero" (CalledProcessError), "timeout" (TimeoutExpired) or "fault"
\* (the script cannot be launched: OSError, TypeError); errtext is e.stderr
Proc(kind, stdout, stderr, errtext) ==
    [kind |-> kind, stdout |-> stdout, stderr |-> stderr, errtext |-> errtext, children |-> 0]

\* the script with n processes of its own (git, docker compose) running
Spawned(proc, n) == [proc EXCEPT !.children = n]

\* subprocess.run(..., timeout=600) without a session or process group of
\* its own: on expiry the script is killed and waited for, and the processes
\* the script started are not signalled, so they are the ones left running
subprocess_run(proc) ==
    IF proc.kind = "timeout" THEN proc.children ELSE 0

NoProc == Proc("none", <<>>, <<>>, "")

ProcResults ==
    { Proc("exit0", <<Line(FALSE, "CONTAINER_ID:", "c1"), Line(FALSE, "DEPLOYMENT_UUID:", "u1")>>, <<>>, ""),
      Proc("exit0", <<Line(FALSE, "noise", "")>>, <<Line(TRUE, "CONTAINER_ID:", "c2"), Line(FALSE, "DEPLOYMENT_UUID:", "u2")>>, ""),
      Proc("exit0", <<Line(FALSE, "CONTAINER_ID:", "c2")>>, <<>>, ""),
      Proc("exit0", <<Line(FALSE, "noise", "")>>, <<>>, ""),
      Proc("nonzero", <<>>, <<>>, "boom"),
      Proc("nonzero", <<>>, <<>>, ""),
      Proc("timeout", <<>>, <<>>, ""),
      Spawned(Proc("timeout", <<>>, <<>>, ""), 1),
      Proc("fault", <<>>, <<>>, "") }

\* the last lines of logs/deploy.log when an attempt reads it
LogFile(readable, lines) == [readable |-> readable, lines |-> lines]
\* the log file of a call that has not opened it
NoLog == LogFile(FALSE, <<Line(FALSE, "not opened", "")>>)

LogFiles ==
    { LogFile(FALSE, <<>>),
      LogFile(TRUE, <<>>),
      LogFile(TRUE, <<Line(FALSE, "Primary container deployed:", "c9"),
                      Line(FALSE, "Deployment UUID:", "u9")>>) }

Markers(cid, uuid) == [container_id |-> cid, deployment_uuid |-> uuid]

\* for line in lines: CONTAINER_ID: / DEPLOYMENT_UUID: sets the identifier,
\* a later line overwriting an earlier one.  stripEach: each line is
\* stripped before startswith; otherwise only the output as a whole was, and
\* an indented marker after the first line is not seen.
RECURSIVE ScanLines(_, _, _, _)
ScanLines(lines, i, stripEach, acc) ==
    IF i > Len(lines) THEN acc
    ELSE LET l == lines[i]
             seen == stripEach \/ i = 1 \/ ~l.lead
         IN  ScanLines(lines, i + 1, stripEach,
                IF seen /\ l.tag = "CONTAINER_ID:"
                THEN [acc EXCEPT !.container_id = l.val]
                ELSE IF seen /\ l.tag = "DEPLOYMENT_UUID:"
                THEN [acc EXCEPT !.deployment_uuid = l.val]
                ELSE acc)

\* webhook, manual_deploy: stdout + "\n" + stderr, each line stripped
ParseOutput(proc) ==
    ScanLines(proc.stdout \o proc.stderr, 1, TRUE, Markers(NULL, NULL))

\* deploy_project, add_project_form: stdout only, lines not stripped
ParseStdout(proc) ==
    ScanLines(proc.stdout, 1, FALSE, Markers(NULL, NULL))

\* the scan of the log file: a labelled line fills an identifier that is
\* still missing
RECURSIVE ScanLog(_, _, _)
ScanLog(lines, i, acc) ==
    IF i > Len(lines) THEN acc
    ELSE LET l == lines[i]
         IN  ScanLog(lines, i + 1,
                IF l.tag = "Primary container deployed:" /\ ~Truthy(acc.container_id)
                THEN [acc EXCEPT !.container_id = l.val]
                ELSE IF l.tag = "Deployment UUID:" /\ ~Truthy(acc.deployment_uuid)
                THEN [acc EXCEPT !.deployment_uuid = l.val]
                ELSE acc)

\* variant: a fallback that lets the log file override the process output
LogFallbackLogWins(m, log) ==
    IF Truthy(m.container_id) /\ Truthy(m.deployment_uuid) THEN m
    ELSE IF ~log.readable THEN m
    ELSE ScanLog(log.lines, 1, Markers(NULL, NULL))

\* if not container_id or not deployment_uuid: read the log; a log that
\* cannot be opened leaves the identifiers as they are
LogFallback(m, log) ==
    IF Truthy(m.container_id) /\ Truthy(m.deployment_uuid) THEN m
    ELSE IF ~log.readable THEN m
    ELSE ScanLog(log.lines, 1, m)

-----------------------------------------------------------------------------
(* routes.py: the entry points.  Each has a part that runs up to the launch *)
(* of the deploy script and a part that runs when subprocess.run returns or *)
(* raises.  They are functions of the database: [db, ...] is what they      *)
(* leave and answer.                                                        *)

\* str(e) of the exception subprocess.run raised
StrOfExc(proc) ==
    CASE proc.kind = "timeout" -> "Command timed out after 600 seconds"
      [] proc.kind = "nonzero" -> "Command returned non-zero exit status"
      [] OTHER                 -> "No such file or directory"

\* e.stderr if e.stderr else str(e)
StderrOrStr(proc) == IF proc.errtext # "" THEN proc.errtext ELSE StrOfExc(proc)

\* the bodies a webhook request may carry: valid, whether json parses it,
\* and the parsed document
Doc(valid, payload) == [valid |-> valid, payload |-> payload]
NoPayload == Payload(FALSE, "absent", NULL, NULL, "absent", NULL)
JsonDocs ==
    << \* 1: hello
       Doc(FALSE, NoPayload),
       \* 2: [1]
       Doc(TRUE, NoPayload),
       \* 3: {}
       Doc(TRUE, Payload(TRUE, "absent", NULL, NULL, "absent", NULL)),
       \* 4: {"repository": "demo"}
       Doc(TRUE, Payload(TRUE, "scalar", NULL, NULL, "absent", NULL)),
       \* 5: {"repository": {"html_url": "https://x/demo"}}
       Doc(TRUE, Payload(TRUE, "map", NULL, "https://x/demo", "absent", NULL)),
       \* 6: {"repository": {"name": "demo", "html_url": "https://x/demo"},
       \*     "head_commit": {"id": "abc123"}}
       Doc(TRUE, Payload(TRUE, "map", "demo", "https://x/demo", "map", "abc123")),
       \* 7: {"repository": {"name": "api", "html_url": "https://x/api"}}
       Doc(TRUE, Payload(TRUE, "map", "api", "https://x/api", "absent", NULL)),
       \* 8: {"repository": {"name": "demo", "html_url": "https://x/demo"},
       \*     "head_commit": {"message": "m"}}
       Doc(TRUE, Payload(TRUE, "map", "demo", "https://x/demo", "map", NULL)),
       \* 9: {"repository": {"name": "demo"}}
       Doc(TRUE, Payload(TRUE, "map", "demo", NULL, "absent", NULL)),
       \* 10: {"head_commit": {"message": "m"}}
       Doc(TRUE, Payload(TRUE, "absent", NULL, NULL, "map", NULL)) >>

\* request.get_data(): the bytes of body number i
RECURSIVE ToBits(_, _)
ToBits(n, width) ==
    IF width = 0 THEN <<>> ELSE Append(ToBits(n \div 2, width - 1), n % 2)
BodyBytes(i) == ToBits(i, 4)

\* what an entry point leaves when it has run up to the launch
Begun(db, resp, started, project_id, repo_url, commit) ==
    [db |-> db, resp |-> resp, started |-> started, project_id |-> project_id,
     repo_url |-> repo_url, commit |-> commit, raised |-> FALSE]

\* an exception escapes the view: Flask answers 500
Raised(db) == [Begun(db, 500, FALSE, NoId, NULL, NULL) EXCEPT !.raised = TRUE]

\* webhook(), lines 393-430.  get_json() of a body that does not parse is a
\* BadRequest, 400.
webhook_begin(db, t, key, body, header, mime, doc) ==
    LET v == verify_github_webhook(body, header, key) IN
    IF v = "TypeError" THEN Raised(db)
    ELSE IF v = "False" THEN Begun(db, 403, FALSE, NoId, NULL, NULL)
    ELSE IF ~mime THEN Begun(db, 400, FALSE, NoId, NULL, NULL)
    ELSE IF ~doc.valid THEN Begun(db, 400, FALSE, NoId, NULL, NULL)
    ELSE LET pw == process_webhook(doc.payload) IN
         IF pw.exc THEN Raised(db)
         ELSE IF ~Truthy(pw.repo_name) THEN Begun(db, 400, FALSE, NoId, NULL, NULL)
         ELSE LET got == get_or_create_project(db, t, pw.repo_name, pw.repo_url) IN
              IF got.ret = {} THEN Begun(got.db, 500, FALSE, NoId, NULL, NULL)
              ELSE LET project == CHOOSE p \in got.ret : TRUE
                   IN  Begun(log_deployment_status(got.db, t, project.id, "started",
                                pw.commit_hash, <<>>, NULL, NULL, "blue-green"),
                             0, TRUE, project.id, pw.repo_url, pw.commit_hash)

\* what an entry point leaves when the attempt is over
Ended(db, resp) == [db |-> db, resp |-> resp]

\* the name of the project with this id
RepoNameOf(db, project_id) ==
    LET rows == get_project_by_id(db, project_id)
    IN  IF rows = {} THEN NULL ELSE (CHOOSE p \in rows : TRUE).repo_name

\* webhook(), lines 439-569: c is the call, with the project and payload
\* values the first part resolved
webhook_end(db, t, c, proc, log) ==
    CASE proc.kind = "exit0" ->
            LET m == LogFallback(ParseOutput(proc), log)
                upd == IF Truthy(m.container_id)
                       THEN update_project_deployment_info(db, t, c.name, NULL,
                                m.container_id, NULL)
                       ELSE db
            IN  Ended(log_deployment_status(upd, t, c.project_id, "success",
                        c.commit, <<>>, m.container_id, m.deployment_uuid,
                        "blue-green"), 200)
      [] proc.kind = "timeout" ->
            Ended(log_deployment_status(db, t, c.project_id, "failed", c.commit,
                    <<"Deployment timed out after 10 minutes: ", StrOfExc(proc)>>,
                    NULL, NULL, "blue-green"), 500)
      [] proc.kind = "nonzero" ->
            Ended(log_deployment_status(db, t, c.project_id, "failed", c.commit,
                    <<"Blue-green deployment failed: ", StderrOrStr(proc)>>,
                    NULL, NULL, "blue-green"), 500)
      [] OTHER ->
            Ended(log_deployment_status(db, t, c.project_id, "failed", c.commit,
                    <<"Unexpected error during blue-green deployment: ", StrOfExc(proc)>>,
                    NULL, NULL, "blue-green"), 500)

\* manual_deploy(), lines 659-681
manual_deploy_begin(db, t, project_name, deployment_type) ==
    LET found == get_project_by_repo_name(db, project_name) IN
    IF found = {} THEN Begun(db, 404, FALSE, NoId, NULL, NULL)
    ELSE LET project == CHOOSE p \in found : TRUE
         IN  Begun(log_deployment_status(db, t, project.id, "started", NULL, <<>>,
                        NULL, NULL, deployment_type),
                   0, TRUE, project.id, project.repo_url, NULL)

\* manual_deploy(), lines 692-772.  The failed rows are logged without a
\* deployment_type (the default, blue-green); the last handler logs no row.
manual_deploy_end(db, t, c, proc, log) ==
    CASE proc.kind = "exit0" ->
            LET m == LogFallback(ParseOutput(proc), log)
            IN  Ended(log_deployment_status(db, t, c.project_id, "success", NULL,
                        <<>>, m.container_id, m.deployment_uuid, c.dtype), 200)
      [] proc.kind = "timeout" ->
            Ended(log_deployment_status(db, t, c.project_id, "failed", NULL,
                    <<"Manual deployment timed out">>, NULL, NULL, "blue-green"), 500)
      [] proc.kind = "nonzero" ->
            Ended(log_deployment_status(db, t, c.project_id, "failed", NULL,
                    <<"Manual deployment failed: ", StderrOrStr(proc)>>,
                    NULL, NULL, "blue-green"), 500)
      [] OTHER -> Ended(db, 500)

\* deploy_project(), lines 284-379, for a JSON request (a form post is
\* answered with a redirect instead): the answer is given once the thread
\* is started
deploy_project_begin(db, t, project_id, deployment_type) ==
    IF project_id = NoId THEN Begun(db, 400, FALSE, NoId, NULL, NULL)
    ELSE LET found == get_project_by_id(db, project_id) IN
         IF found = {} THEN Begun(db, 404, FALSE, NoId, NULL, NULL)
         ELSE LET project == CHOOSE p \in found : TRUE
              IN  Begun(log_deployment_status(db, t, project.id, "started", NULL,
                            <<>>, NULL, NULL, deployment_type),
                        200, TRUE, project.id, project.repo_url, NULL)

\* variant: a worker that records nothing when the process times out
run_deployment_silent_timeout(db, t, c, proc, prefix) ==
    IF proc.kind = "exit0"
    THEN LET m == ParseStdout(proc)
         IN  log_deployment_status(db, t, c.project_id, "success", NULL, <<>>,
                m.container_id, m.deployment_uuid, c.dtype)
    ELSE IF proc.kind = "timeout" THEN db
    ELSE log_deployment_status(db, t, c.project_id, "failed", NULL,
            <<prefix, StrOfExc(proc)>>, NULL, NULL, c.dtype)

\* run_deployment() of deploy_project and of add_project_form, which differ
\* in the text of the message: the thread has no answer to give
run_deployment(db, t, c, proc, prefix) ==
    IF proc.kind = "exit0"
    THEN LET m == ParseStdout(proc)
         IN  log_deployment_status(db, t, c.project_id, "success", NULL, <<>>,
                m.container_id, m.deployment_uuid, c.dtype)
    ELSE log_deployment_status(db, t, c.project_id, "failed", NULL,
            <<prefix, StrOfExc(proc)>>, NULL, NULL, c.dtype)

\* add_project_form(), POST, lines 72-175: 302 is the redirect to the list
\* of projects, 200 the form shown again
add_project_form_begin(db, t, name, git_url, domain, deployment_type, deploy_immediately) ==
    IF ~Truthy(name) \/ ~Truthy(git_url) \/ ~Truthy(domain)
    THEN Begun(db, 200, FALSE, NoId, NULL, NULL)
    ELSE LET got == get_or_create_project(db, t, name, git_url) IN
         IF got.ret = {} THEN Begun(got.db, 200, FALSE, NoId, NULL, NULL)
         ELSE LET project == CHOOSE p \in got.ret : TRUE
              IN  IF deploy_immediately
                  THEN Begun(log_deployment_status(got.db, t, project.id, "started",
                                NULL, <<>>, NULL, NULL, deployment_type),
                             302, TRUE, project.id, git_url, NULL)
                  ELSE Begun(got.db, 302, FALSE, project.id, git_url, NULL)

-----------------------------------------------------------------------------
(* The orchestrator as a state machine: requests arrive at the entry points, *)
(* deploy scripts end, time passes.                                         *)

Names == {"demo", "api"}
UrlOf(name) == IF name = "demo" THEN "https://x/demo" ELSE "https://x/api"
\* the addresses one repository is known by: the clone_url of a push, and
\* the address typed into the add-project form
Urls(name) == {UrlOf(name), IF name = "demo" THEN "git@x:demo" ELSE "git@x:api"}
\* what a trigger may send as deployment type
DeploymentTypes == {"blue-green", "simple", "canary"}
\* the configured secret, and another
Key1 == <<0, 1>>
Key2 == <<1>>
GateForms == {"good", "noprefix", "nonascii", "none"}

SetDB(db) ==
    /\ projects' = db.projects
    /\ deployments' = db.deployments
    /\ seqProjects' = db.seqProjects
    /\ seqDeployments' = db.seqDeployments

\* the ids of the deployment rows inserted between two states of the database
RECURSIVE IdsFrom(_, _)
IdsFrom(a, b) == IF a >= b THEN <<>> ELSE <<a + 1>> \o IdsFrom(a + 1, b)
NewRows(before, after) == IdsFrom(before.seqDeployments, after.seqDeployments)

\* if deployment_type == 'blue-green': blue_green_deploy.sh, else deploy.sh
\* (the webhook runs blue_green_deploy.sh, and its type is blue-green)
ScriptFor(deployment_type) ==
    IF deployment_type = "blue-green" THEN "blue_green_deploy.sh" ELSE "deploy.sh"

\* the record kept of one invocation: the request, what the first part of
\* the entry point resolved, whether it inserted the project row, whether an
\* exception escaped it, the answer (0: none yet), the script it runs, the
\* way the script ended, and the ids of the deployment rows the invocation
\* inserted
Call(entry, form, verified, mime, doc, name, dtype, b) ==
    [entry |-> entry, form |-> form, verified |-> verified, mime |-> mime,
     doc |-> doc, name |-> name, dtype |-> dtype,
     project_id |-> b.project_id, repo_url |-> b.repo_url, commit |-> b.commit,
     created |-> b.db.seqProjects # seqProjects, raised |-> b.raised,
     started |-> b.started, pc |-> IF b.started THEN "running" ELSE "done",
     script |-> IF b.started THEN ScriptFor(dtype) ELSE NULL,
     resp |-> b.resp, proc |-> NoProc, log |-> NoLog, left |-> 0,
     rows |-> NewRows(DB, b.db)]

Arrive(c, db) ==
    /\ calls' = Append(calls, c)
    /\ SetDB(db)
    /\ UNCHANGED <<vcall, secret, now, rcall, threads, compose, deploy_log>>

\* The sender signs, with the configured key or another, the body it sends
\* or another one.  A request whose signature the gate refuses carries body 1
\* or body 6, since nobody reads its body; so does a request that is not
\* marked as JSON.
Webhook ==
    /\ Len(calls) < MaxCalls
    /\ \E doc \in 1..Len(JsonDocs), mime \in BOOLEAN, form \in GateForms,
       sigKey \in {Key1, Key2} : \E signed \in {doc, IF doc = 1 THEN 6 ELSE 1} :
        \E header \in {MakeHeader(form, sigKey, BodyBytes(signed))} :
        \E v \in {verify_github_webhook(BodyBytes(doc), header, secret)} :
            /\ (v # "True" \/ ~mime) => doc \in {1, 6}
            /\ \E b \in {webhook_begin(DB, now, secret, BodyBytes(doc), header,
                                        mime, JsonDocs[doc])} :
                    Arrive(Call("webhook", form, v, mime, doc,
                                IF b.started
                                THEN process_webhook(JsonDocs[doc].payload).repo_name
                                ELSE NULL,
                                "blue-green", b), b.db)

ManualDeploy ==
    /\ Len(calls) < MaxCalls
    /\ \E name \in Names, dtype \in DeploymentTypes :
        \E b \in {manual_deploy_begin(DB, now, name, dtype)} :
            Arrive(Call("manual", "none", "False", FALSE, 0, name, dtype, b), b.db)

DeployProject ==
    /\ Len(calls) < MaxCalls
    /\ \E project_id \in 0..2, dtype \in DeploymentTypes :
        \E b \in {deploy_project_begin(DB, now, project_id, dtype)} :
            Arrive(Call("deploy", "none", "False", FALSE, 0,
                        RepoNameOf(DB, project_id), dtype, b), b.db)

AddProjectForm ==
    /\ Len(calls) < MaxCalls
    /\ \E name \in Names \cup {""}, dtype \in DeploymentTypes, deploy_immediately \in BOOLEAN :
        \E b \in {add_project_form_begin(DB, now, name, UrlOf(name), "demo.localhost",
                                         dtype, deploy_immediately)} :
            Arrive(Call("add_form", "none", "False", FALSE, 0, name, dtype, b), b.db)

\* the script of call i ends as proc says; a script given no URL cannot be
\* launched
Ends(i, proc) ==
    /\ i \in 1..Len(calls)
    /\ calls[i].pc = "running"
    /\ calls[i].repo_url = NULL => proc.kind = "fault"

Finish(i, proc, log, db, resp) ==
    /\ calls' = [calls EXCEPT ![i].pc = "done", ![i].resp = resp, ![i].proc = proc,
                              ![i].log = log, ![i].left = subprocess_run(proc),
                              ![i].rows = @ \o NewRows(DB, db)]
    /\ SetDB(db)
    /\ UNCHANGED <<vcall, secret, now, rcall, threads, compose, deploy_log>>

CompleteWebhook ==
    \E i \in 1..Len(calls), proc \in ProcResults, log \in LogFiles :
        /\ calls[i].entry = "webhook"
        /\ Ends(i, proc)
        /\ \E e \in {webhook_end(DB, now, calls[i], proc, log)} :
                Finish(i, proc, log, e.db, e.resp)

CompleteManual ==
    \E i \in 1..Len(calls), proc \in ProcResults, log \in LogFiles :
        /\ calls[i].entry = "manual"
        /\ Ends(i, proc)
        /\ \E e \in {manual_deploy_end(DB, now, calls[i], proc, log)} :
                Finish(i, proc, log, e.db, e.resp)

CompleteDeploy ==
    \E i \in 1..Len(calls), proc \in ProcResults :
        /\ calls[i].entry = "deploy"
        /\ Ends(i, proc)
        /\ \E db \in {run_deployment(DB, now, calls[i], proc,
                                      "Web UI deployment failed: ")} :
                Finish(i, proc, NoLog, db, calls[i].resp)

CompleteInitial ==
    \E i \in 1..Len(calls), proc \in ProcResults :
        /\ calls[i].entry = "add_form"
        /\ Ends(i, proc)
        /\ \E db \in {run_deployment(DB, now, calls[i], proc,
                                      "Initial deployment failed: ")} :
                Finish(i, proc, NoLog, db, calls[i].resp)

Tick ==
    /\ now < MaxTime
    /\ now' = now + 1
    /\ UNCHANGED <<vcall, secret, projects, deployments, seqProjects,
                   seqDeployments, calls, rcall, threads, compose, deploy_log>>

Init ==
    /\ vcall = VIdle
    /\ secret = Str(Key1)
    /\ projects = {}
    /\ deployments = {}
    /\ seqProjects = 0
    /\ seqDeployments = 0
    /\ now = 0
    /\ calls = <<>>
    /\ rcall = <<>>
    /\ threads = <<>>
    /\ deploy_log = <<>>
    /\ compose = NoCompose

Next ==
    \/ Webhook
    \/ ManualDeploy
    \/ DeployProject
    \/ AddProjectForm
    \/ CompleteWebhook
    \/ CompleteManual
    \/ CompleteDeploy
    \/ CompleteInitial

\* No entry point reads a timestamp, so in the orchestrator's runs the clock
\* stands still; it runs in the registry's (SpecRegistry).
Spec == Init /\ [][Next]_vars

\* the verifier alone, on every input of the bounded sets
InitVerify ==
    /\ vcall \in VerifyInputs
    /\ secret = NoneStr
    /\ projects = {}
    /\ deployments = {}
    /\ seqProjects = 0
    /\ seqDeployments = 0
    /\ now = 0
    /\ calls = <<>>
    /\ rcall = <<>>
    /\ threads = <<>>
    /\ deploy_log = <<>>
    /\ compose = NoCompose

NextVerify == VerifyCall

SpecVerify == InitVerify /\ [][NextVerify]_vars

-----------------------------------------------------------------------------
(* The registry as a state machine: its operations are called one after     *)
(* the other, by any caller, while time passes.                             *)

\* the record kept of one operation: its number, its arguments, the value it
\* returned (a project id, a Boolean as 0 or 1, a count) and, of the row
\* that has the repo_name afterwards, created_at
Op(n, op, name, url, cid, pid, status, ret, created) ==
    [n |-> n, op |-> op, name |-> name, url |-> url, cid |-> cid, pid |-> pid,
     status |-> status, ret |-> ret, created |-> created]

OpCount == IF rcall = <<>> THEN 0 ELSE rcall[Len(rcall)].n

CreatedAt(db, name) ==
    LET rows == get_project_by_repo_name(db, name)
    IN  IF rows = {} THEN -1 ELSE (CHOOSE p \in rows : TRUE).created_at

\* rcall keeps the records of the last two operations
Performed(r, db) ==
    /\ rcall' = IF rcall = <<>> THEN <<r>> ELSE <<rcall[Len(rcall)], r>>
    /\ SetDB(db)
    /\ UNCHANGED <<vcall, secret, now, calls, threads, compose, deploy_log>>

RegUrls(name) == {UrlOf(name), "https://y/fork", NULL}
RegContainers == {NULL, "c1", "c2"}
RegProjectIds == 1..2
\* status and container_id of the rows the callers record
RegOutcomes == {<<"started", NULL>>, <<"success", "c1">>, <<"success", NULL>>, <<"failed", NULL>>, <<"failed", "c1">>}

RegUpsert ==
    /\ OpCount < MaxOps
    /\ \E name \in Names, cid \in RegContainers : \E url \in RegUrls(name) :
        \E r \in {add_or_update_project(DB, now, name, url, NULL, cid, NULL)} :
            Performed(Op(OpCount + 1, "add_or_update_project", name, url, cid, 0,
                         NULL, r.ret, CreatedAt(r.db, name)), r.db)

RegResolve ==
    /\ OpCount < MaxOps
    /\ \E name \in Names :
        \E r \in {get_or_create_project(DB, now, name, UrlOf(name))} :
            Performed(Op(OpCount + 1, "get_or_create_project", name, UrlOf(name),
                         NULL, 0, NULL,
                         IF r.ret = {} THEN NoId ELSE (CHOOSE p \in r.ret : TRUE).id,
                         CreatedAt(r.db, name)), r.db)

RegUpdateInfo ==
    /\ OpCount < MaxOps
    /\ \E name \in Names, cid \in RegContainers :
        \E db \in {update_project_deployment_info(DB, now, name, NULL, cid, "u1")} :
            Performed(Op(OpCount + 1, "update_project_deployment_info", name, NULL,
                         cid, 0, NULL, 0, CreatedAt(db, name)), db)

RegRecord ==
    /\ OpCount < MaxOps
    /\ \E pid \in RegProjectIds, o \in RegOutcomes :
        \E db \in {log_deployment_status(DB, now, pid, o[1], NULL, <<>>, o[2],
                                         NULL, "blue-green")} :
            Performed(Op(OpCount + 1, "log_deployment_status", NULL, NULL, o[2], pid,
                         o[1], 0, -1), db)

RegDeleteProject ==
    /\ OpCount < MaxOps
    /\ \E pid \in RegProjectIds :
        \E r \in {delete_project(DB, pid)} :
            Performed(Op(OpCount + 1, "delete_project", NULL, NULL, NULL, pid, NULL,
                         IF r.ret THEN 1 ELSE 0, -1), r.db)

RegDeleteHistory ==
    /\ OpCount < MaxOps
    /\ \E pid \in RegProjectIds :
        \E r \in {delete_deployment_history(DB, pid)} :
            Performed(Op(OpCount + 1, "delete_deployment_history", NULL, NULL, NULL,
                         pid, NULL, r.ret, -1), r.db)

InitRegistry ==
    /\ vcall = VIdle
    /\ secret = NoneStr
    /\ projects = {}
    /\ deployments = {}
    /\ seqProjects = 0
    /\ seqDeployments = 0
    /\ now = 0
    /\ calls = <<>>
    /\ rcall = <<>>
    /\ threads = <<>>
    /\ deploy_log = <<>>
    /\ compose = NoCompose

NextRegistry ==
    \/ RegUpsert
    \/ RegResolve
    \/ RegUpdateInfo
    \/ RegRecord
    \/ RegDeleteProject
    \/ RegDeleteHistory
    \/ Tick

SpecRegistry == InitRegistry /\ [][NextRegistry]_vars

-----------------------------------------------------------------------------
(* Properties of the signature verifier, checked under SpecVerify           *)

VerifierDone == vcall.result # "idle"

RegistryUntouched ==
    /\ projects = {}
    /\ deployments = {}
    /\ seqProjects = 0
    /\ seqDeployments = 0

C3_MalformedInputsRefused ==
    (/\ VerifierDone
     /\ \/ Falsy(vcall.header)
        \/ Falsy(vcall.key)
        \/ ~StartsWith(vcall.header.s, Prefix))
    => (vcall.result = "False" /\ RegistryUntouched)

\* C3 happens: a header that is the correct digest of the received body under
\* the configured secret, without the prefix, has been refused.
C3_Witness ==
    /\ VerifierDone
    /\ vcall.form = "noprefix"
    /\ vcall.key = Str(vcall.sigKey)
    /\ vcall.body = vcall.sigBody
    /\ vcall.header.s = HexDigest(vcall.sigKey, vcall.body)
    /\ vcall.result = "False"

-----------------------------------------------------------------------------
(* Properties of the entry points, checked under Spec                       *)

CallIds == 1..Len(calls)

\* the deployment row with this id
RowOf(id) == CHOOSE d \in deployments : d.id = id

\* the rows call i inserted are there, for the call's project
RowsOfCall(i) ==
    \A k \in 1..Len(calls[i].rows) :
        /\ \E d \in deployments : d.id = calls[i].rows[k]
        /\ RowOf(calls[i].rows[k]).project_id = calls[i].project_id

\* output line "tag" + val of the script
Printed(proc, tag, val) ==
    \E k \in 1..Len(proc.stdout \o proc.stderr) :
        /\ (proc.stdout \o proc.stderr)[k].tag = tag
        /\ (proc.stdout \o proc.stderr)[k].val = val

\* no other invocation concerns the project of call i
AloneOnProject(i) ==
    \A j \in CallIds : j # i => calls[j].project_id # calls[i].project_id

\* what C1 takes to make a webhook request unacceptable
Unacceptable(c) ==
    \/ ~c.mime
    \/ ~JsonDocs[c.doc].valid
    \/ c.form = "none"
    \/ c.verified # "True"
    \/ ~JsonDocs[c.doc].payload.dict
    \/ JsonDocs[c.doc].payload.repo # "map"
    \/ ~Truthy(JsonDocs[c.doc].payload.name)

\* C1 as stated: a webhook request that is not JSON, carries no signature or
\* one that does not verify, or has no repository.name in its payload, is
\* answered with a 4xx status, inserts no Project and no Deployment row and
\* starts no process.
C1_AsStated ==
    \A i \in CallIds :
        (calls[i].entry = "webhook" /\ Unacceptable(calls[i])) =>
            /\ calls[i].resp \in 400..499
            /\ ~calls[i].started
            /\ ~calls[i].created
            /\ calls[i].rows = <<>>

\* C8 as stated: a JSON payload with a valid signature gets a rejection or a
\* result from the webhook handler, no exception escapes, and a rejection is
\* decided before any row is written.
C8_AsStated ==
    \A i \in CallIds :
        (/\ calls[i].entry = "webhook"
         /\ calls[i].verified = "True"
         /\ calls[i].mime
         /\ JsonDocs[calls[i].doc].valid) =>
            /\ ~calls[i].raised
            /\ ~calls[i].started => (~calls[i].created /\ calls[i].rows = <<>>)

EndsNow(i) == calls[i].pc = "running" /\ calls'[i].pc = "done"

\* the texts by which a message tells of a timeout
MentionsTimeout(msg) ==
    \E k \in 1..Len(msg) :
        msg[k] \in {"Deployment timed out after 10 minutes: ",
                    "Manual deployment timed out",
                    "Command timed out after 600 seconds"}

\* C5: when the script of an attempt times out, at any of the four entry
\* points, the attempt gets exactly one failed Deployment row, whose message
\* tells of a timeout, it gets no success row, and the container_id of its
\* Project stays as it was.
C5_TimeoutRecorded ==
    [][\A i \in CallIds :
        (EndsNow(i) /\ calls'[i].proc.kind = "timeout") =>
            /\ \E d \in deployments' \ deployments :
                /\ deployments' = deployments \cup {d}
                /\ calls'[i].rows = Append(calls[i].rows, d.id)
                /\ d.status = "failed"
                /\ d.project_id = calls[i].project_id
                /\ MentionsTimeout(d.error_message)
            /\ \A d \in deployments :
                (\E k \in 1..Len(calls[i].rows) : calls[i].rows[k] = d.id)
                    => d.status = "started"
            /\ \A p \in projects : p.id = calls[i].project_id =>
                \E q \in projects' : q.id = p.id /\ q.container_id = p.container_id
      ]_vars

\* C5 happens: an attempt on a project that has a container has timed out
\* and its failed row is there.
C5_Witness ==
    \E i \in CallIds :
        /\ calls[i].pc = "done"
        /\ calls[i].proc.kind = "timeout"
        /\ Len(calls[i].rows) = 2
        /\ RowOf(calls[i].rows[2]).status = "failed"
        /\ \E p \in projects : p.id = calls[i].project_id /\ p.container_id = "c1"

\* C6: an attempt, at any of the four entry points, has one started row
\* while its script runs; when the script has ended by a clean exit, a
\* non-zero exit or a timeout it has exactly that started row and one terminal
\* row after it, success if and only if the exit was clean and failed
\* otherwise; an invocation that did not start an attempt has no row.
C6_AttemptStateMachine ==
    \A i \in CallIds :
        /\ RowsOfCall(i)
        /\ ~calls[i].started => calls[i].rows = <<>>
        /\ (calls[i].started /\ calls[i].pc = "running") =>
            /\ Len(calls[i].rows) = 1
            /\ RowOf(calls[i].rows[1]).status = "started"
        /\ (calls[i].pc = "done"
                /\ calls[i].proc.kind \in {"exit0", "nonzero", "timeout"}) =>
            /\ Len(calls[i].rows) = 2
            /\ calls[i].rows[1] < calls[i].rows[2]
            /\ RowOf(calls[i].rows[1]).status = "started"
            /\ RowOf(calls[i].rows[2]).status =
                    IF calls[i].proc.kind = "exit0" THEN "success" ELSE "failed"

\* C6 happens: an attempt has ended with a non-zero exit and another with a
\* clean exit, at different entry points.
C6_Witness ==
    \E i, j \in CallIds :
        /\ calls[i].entry # calls[j].entry
        /\ calls[i].pc = "done" /\ calls[i].proc.kind = "nonzero"
        /\ calls[j].pc = "done" /\ calls[j].proc.kind = "exit0"
        /\ RowOf(calls[i].rows[2]).status = "failed"
        /\ RowOf(calls[j].rows[2]).status = "success"

\* C7 as stated: an attempt whose script could not be launched, at any entry
\* point, gets a failed Deployment row with a message, and the entry point
\* that answers gives an answer.
C7_AsStated ==
    \A i \in CallIds :
        (calls[i].pc = "done" /\ calls[i].proc.kind = "fault") =>
            /\ ~calls[i].raised
            /\ calls[i].resp # 0
            /\ Len(calls[i].rows) = 2
            /\ RowOf(calls[i].rows[2]).status = "failed"
            /\ RowOf(calls[i].rows[2]).error_message # <<>>

-----------------------------------------------------------------------------
(* Properties of the registry, checked under SpecRegistry                   *)

\* the operation this step performs
OpNow == rcall'[Len(rcall')]
IsOp == rcall' # <<>> /\ OpNow.n = OpCount + 1

\* C9: a Deployment row, once inserted, stays as it is, whatever operation
\* follows, until delete_deployment_history of its project removes it; and a
\* row enters the collection only by the insert of log_deployment, one row
\* with a fresh id in a step.
C9_DeploymentsAppendOnly ==
    [][/\ \A d \in deployments :
            \/ d \in deployments'
            \/ /\ IsOp
               /\ OpNow.op = "delete_deployment_history"
               /\ OpNow.pid = d.project_id
               /\ \A e \in deployments' : e.id # d.id
       /\ \A d \in deployments' \ deployments :
            /\ IsOp
            /\ OpNow.op = "log_deployment_status"
            /\ d.id = seqDeployments + 1
            /\ deployments' = deployments \cup {d}
      ]_vars

\* C9 happens: a started row and then a success row with a container were
\* recorded for a project that exists, the success was copied to the project,
\* and the started row is still as it was inserted.
C9_Witness ==
    /\ Len(rcall) = 2
    /\ rcall[1].op = "log_deployment_status" /\ rcall[1].status = "started"
    /\ rcall[2].op = "log_deployment_status" /\ rcall[2].status = "success"
    /\ rcall[1].pid = rcall[2].pid
    /\ \E p \in projects : p.id = rcall[2].pid /\ p.container_id = "c1"
    /\ \E d, e \in deployments :
        /\ d.project_id = rcall[1].pid /\ d.status = "started"
        /\ d.container_id = NULL
        /\ e.project_id = rcall[1].pid /\ e.status = "success"
        /\ d.id < e.id

\* two calls of add_or_update_project in sequence for one repo_name, each
\* with a repo_url
UpsertedTwice ==
    /\ Len(rcall) = 2
    /\ rcall[1].op = "add_or_update_project"
    /\ rcall[2].op = "add_or_update_project"
    /\ rcall[1].name = rcall[2].name
    /\ rcall[1].url # NULL
    /\ rcall[2].url # NULL

\* C10: two calls of add_or_update_project in sequence with the same
\* repo_name (and a repo_url each) return the same id; afterwards there is
\* exactly one row of that name, it has that id, its repo_url and
\* container_id are those of the second call, and its created_at is what it
\* was after the first call.
C10_SequentialUpsert ==
    UpsertedTwice =>
        /\ rcall[1].ret # NoId
        /\ rcall[2].ret = rcall[1].ret
        /\ Cardinality(get_project_by_repo_name(DB, rcall[2].name)) = 1
        /\ \A p \in get_project_by_repo_name(DB, rcall[2].name) :
            /\ p.id = rcall[1].ret
            /\ p.repo_url = rcall[2].url
            /\ p.container_id = rcall[2].cid
            /\ p.created_at = rcall[1].created

\* C10 happens: the second call came later than the first and brought
\* another repo_url and another container_id.
C10_Witness ==
    /\ UpsertedTwice
    /\ rcall[1].url # rcall[2].url
    /\ rcall[1].cid = "c1"
    /\ rcall[2].cid = "c2"
    /\ \E p \in projects :
        /\ p.repo_name = rcall[2].name
        /\ p.container_id = "c2"
        /\ p.created_at = 0
        /\ p.updated_at = 1

-----------------------------------------------------------------------------
(* The registry under concurrent callers: the request threads and the       *)
(* deployment threads each open their own connection, and a call of         *)
(* get_or_create_project or add_or_update_project is a sequence of          *)
(* statements between which the statements of other calls run.              *)

\* an INSERT that the UNIQUE constraint does not stop
insert_project_no_unique(db, t, repo_name, repo_url, local_path, container_id, deployment_uuid) ==
    IF repo_name = NULL \/ repo_url = NULL
    THEN [db |-> db, ret |-> NoId]
    ELSE LET id == db.seqProjects + 1
             row == [id |-> id, repo_name |-> repo_name,
                     repo_url |-> repo_url, local_path |-> local_path,
                     container_id |-> container_id,
                     deployment_uuid |-> deployment_uuid,
                     created_at |-> t, updated_at |-> t]
         IN  [db |-> [db EXCEPT !.projects = @ \cup {row},
                                !.seqProjects = id],
              ret |-> id]

\* INSERT INTO projects ...; conn.commit(); return cursor.lastrowid.
\* repo_name is UNIQUE NOT NULL and repo_url NOT NULL: a row that breaks a
\* constraint is an IntegrityError, caught: nothing is written, None returned
insert_project(db, t, repo_name, repo_url, local_path, container_id, deployment_uuid) ==
    IF \/ repo_name = NULL
       \/ repo_url = NULL
       \/ get_project_by_repo_name(db, repo_name) # {}
    THEN [db |-> db, ret |-> NoId]
    ELSE LET id == db.seqProjects + 1
             row == [id |-> id, repo_name |-> repo_name,
                     repo_url |-> repo_url, local_path |-> local_path,
                     container_id |-> container_id,
                     deployment_uuid |-> deployment_uuid,
                     created_at |-> t, updated_at |-> t]
         IN  [db |-> [db EXCEPT !.projects = @ \cup {row},
                                !.seqProjects = id],
              ret |-> id]

\* UPDATE projects SET ... WHERE repo_name = ?; conn.commit(); return
\* existing_project['id'], the id of the row the call looked up before
update_project(db, t, existing, repo_name, repo_url, local_path, container_id, deployment_uuid) ==
    IF repo_url = NULL
    THEN [db |-> db, ret |-> NoId]
    ELSE [db |-> [db EXCEPT !.projects =
                    {IF p.repo_name = repo_name
                     THEN [p EXCEPT !.repo_url = repo_url,
                                    !.local_path = local_path,
                                    !.container_id = container_id,
                                    !.deployment_uuid = deployment_uuid,
                                    !.updated_at = t]
                     ELSE p : p \in @}],
          ret |-> (CHOOSE p \in existing : TRUE).id]

\* one call in progress.  pc: "lookup" (get_or_create_project reads),
\* "check" (add_or_update_project reads), "write" (it updates or inserts),
\* "fetch" (get_or_create_project reads the row it created), "done".
\* found and existing are what the two reads returned; ret is the id of the
\* project the call returned, NoId for None
Thread(op, name, url, cid, pc) ==
    [op |-> op, name |-> name, url |-> url, cid |-> cid, pc |-> pc,
     found |-> {}, existing |-> {}, ret |-> NoId]

ThreadIds == 1..Len(threads)

Stepped(i, th, db) ==
    /\ threads' = [threads EXCEPT ![i] = th]
    /\ SetDB(db)
    /\ UNCHANGED <<vcall, secret, now, calls, rcall, compose, deploy_log>>

\* a trigger resolves its project, or a caller upserts one
ThreadStart ==
    /\ Len(threads) < MaxThreads
    /\ \E name \in Names, cid \in {NULL, "c1"},
          op \in {"get_or_create_project", "add_or_update_project"} :
        /\ op = "get_or_create_project" => cid = NULL
        /\ \E url \in Urls(name) :
           threads' = Append(threads,
                Thread(op, name, url, cid,
                       IF op = "get_or_create_project" THEN "lookup" ELSE "check"))
    /\ UNCHANGED <<vcall, secret, projects, deployments, seqProjects,
                   seqDeployments, now, calls, rcall, compose, deploy_log>>

\* get_or_create_project: existing_project = get_project_by_repo_name(...)
ThreadLookup ==
    \E i \in ThreadIds :
        /\ threads[i].pc = "lookup"
        /\ \E rows \in {get_project_by_repo_name(DB, threads[i].name)} :
            Stepped(i, IF rows # {}
                       THEN [threads[i] EXCEPT !.found = rows, !.pc = "done",
                                !.ret = (CHOOSE p \in rows : TRUE).id]
                       ELSE [threads[i] EXCEPT !.pc = "check"],
                    DB)

\* add_or_update_project: existing_project = get_project_by_repo_name(...)
ThreadCheck ==
    \E i \in ThreadIds :
        /\ threads[i].pc = "check"
        /\ Stepped(i, [threads[i] EXCEPT
                            !.existing = get_project_by_repo_name(DB, threads[i].name),
                            !.pc = "write"],
                   DB)

\* add_or_update_project: the UPDATE or the INSERT, as the read decided
ThreadWrite ==
    \E i \in ThreadIds :
        /\ threads[i].pc = "write"
        /\ \E r \in {IF threads[i].existing # {}
                     THEN update_project(DB, now, threads[i].existing, threads[i].name,
                                threads[i].url, NULL, threads[i].cid, NULL)
                     ELSE insert_project(DB, now, threads[i].name, threads[i].url,
                                NULL, threads[i].cid, NULL)} :
            Stepped(i, IF threads[i].op = "get_or_create_project" /\ r.ret # NoId
                       THEN [threads[i] EXCEPT !.pc = "fetch"]
                       ELSE [threads[i] EXCEPT !.pc = "done", !.ret = r.ret],
                    r.db)

\* get_or_create_project: return get_project_by_repo_name(repo_name)
ThreadFetch ==
    \E i \in ThreadIds :
        /\ threads[i].pc = "fetch"
        /\ \E rows \in {get_project_by_repo_name(DB, threads[i].name)} :
            Stepped(i, [threads[i] EXCEPT !.pc = "done",
                            !.ret = IF rows = {} THEN NoId
                                    ELSE (CHOOSE p \in rows : TRUE).id],
                    DB)

NextRace ==
    \/ ThreadStart
    \/ ThreadLookup
    \/ ThreadCheck
    \/ ThreadWrite
    \/ ThreadFetch
    \/ Tick

SpecRace == InitRegistry /\ [][NextRace]_vars

\* C11: at any moment, whatever the interleaving of the statements of
\* concurrent upserts and resolutions, no two Project rows have the same
\* repo_name.
C11_ProjectUniqueness ==
    \A name \in Names : Cardinality(get_project_by_repo_name(DB, name)) <= 1

\* C11 happens: two calls for one repo_name both read before either wrote,
\* so both went on to insert; both have written, and one row is there.
C11_Witness ==
    \E i, j \in ThreadIds :
        /\ i # j
        /\ threads[i].name = threads[j].name
        /\ threads[i].pc = "done" /\ threads[j].pc = "done"
        /\ threads[i].found = {} /\ threads[i].existing = {}
        /\ threads[j].found = {} /\ threads[j].existing = {}
        /\ Cardinality(get_project_by_repo_name(DB, threads[i].name)) = 1

\* C12 as stated: two triggers that resolve the same repo_name, each finding
\* no Project row for it, both get the same project, and neither gets a
\* failure, however their reads and inserts interleave.
C12_AsStated ==
    \A i, j \in ThreadIds :
        (/\ i # j
         /\ threads[i].op = "get_or_create_project"
         /\ threads[j].op = "get_or_create_project"
         /\ threads[i].name = threads[j].name
         /\ threads[i].found = {} /\ threads[j].found = {}
         /\ threads[i].pc = "done" /\ threads[j].pc = "done") =>
            /\ threads[i].ret # NoId
            /\ threads[j].ret # NoId
            /\ threads[i].ret = threads[j].ret

\* C13: a call of log_deployment_status inserts exactly one Deployment row,
\* with the values given.  When status is success and a container id is
\* given, the project with the given id gets that container_id (and a new
\* updated_at) and every other Project row stays as it is; in every other
\* case every Project row stays as it is.
C13_RecordDeployment ==
    [][(IsOp /\ OpNow.op = "log_deployment_status") =>
        /\ \E d \in deployments' \ deployments :
            /\ deployments' = deployments \cup {d}
            /\ \A e \in deployments : e.id # d.id
            /\ d.project_id = OpNow.pid
            /\ d.status = OpNow.status
            /\ d.container_id = OpNow.cid
        /\ IF OpNow.status = "success" /\ Truthy(OpNow.cid)
           THEN /\ Cardinality(projects') = Cardinality(projects)
                /\ \A p \in projects :
                    IF p.id = OpNow.pid
                    THEN [p EXCEPT !.container_id = OpNow.cid,
                                   !.updated_at = now] \in projects'
                    ELSE p \in projects'
           ELSE projects' = projects
      ]_vars

\* C13 happens: a project was upserted with container c2, then a success
\* with container c1 was recorded for it, and the project holds c1.
C13_Witness ==
    /\ Len(rcall) = 2
    /\ rcall[1].op = "add_or_update_project"
    /\ rcall[1].cid = "c2"
    /\ rcall[1].ret # NoId
    /\ rcall[2].op = "log_deployment_status"
    /\ rcall[2].status = "success"
    /\ rcall[2].cid = "c1"
    /\ rcall[2].pid = rcall[1].ret
    /\ \E p \in projects : p.id = rcall[2].pid /\ p.container_id = "c1"
    /\ \E d \in deployments : d.project_id = rcall[2].pid /\ d.status = "success"

-----------------------------------------------------------------------------
(* Further properties of the entry points, stated over Spec                 *)

\* call i has ended with a clean exit of a script that printed both
\* identifiers, c and u
Reported(i, c, u) ==
    /\ calls[i].pc = "done"
    /\ calls[i].proc.kind = "exit0"
    /\ Printed(calls[i].proc, "CONTAINER_ID:", c)
    /\ Printed(calls[i].proc, "DEPLOYMENT_UUID:", u)

\* C14 as stated: after a deployment that succeeded and whose script printed
\* CONTAINER_ID:c and DEPLOYMENT_UUID:u, the Project row holds container_id c
\* and deployment_uuid u (no other invocation concerning the project).
C14_AsStated ==
    \A i \in CallIds : \A c \in {"c1", "c2"}, u \in {"u1", "u2"} :
        (Reported(i, c, u) /\ AloneOnProject(i)) =>
            \A p \in get_project_by_id(DB, calls[i].project_id) :
                /\ p.container_id = c
                /\ p.deployment_uuid = u

\* C15 as stated: at every entry point, when the script exits 0 and its
\* output has a line CONTAINER_ID:c and a line DEPLOYMENT_UUID:u, on stdout or
\* on stderr, the success row of the attempt records c and u and the
\* Project's container_id becomes c (no other invocation concerning the
\* project).
C15_AsStated ==
    \A i \in CallIds : \A c \in {"c1", "c2"}, u \in {"u1", "u2"} :
        Reported(i, c, u) =>
            /\ Len(calls[i].rows) = 2
            /\ RowOf(calls[i].rows[2]).status = "success"
            /\ RowOf(calls[i].rows[2]).container_id = c
            /\ RowOf(calls[i].rows[2]).deployment_uuid = u
            /\ AloneOnProject(i) =>
                \A p \in get_project_by_id(DB, calls[i].project_id) :
                    p.container_id = c

\* C16 as stated: every Deployment row of an attempt, its started row and
\* its terminal row, carries the deployment_type the attempt was triggered
\* with, and the script run is blue_green_deploy.sh for type blue-green and
\* deploy.sh for type simple.
C16_AsStated ==
    \A i \in CallIds :
        calls[i].started =>
            /\ \A k \in 1..Len(calls[i].rows) :
                    RowOf(calls[i].rows[k]).deployment_type = calls[i].dtype
            /\ calls[i].dtype = "blue-green" => calls[i].script = "blue_green_deploy.sh"
            /\ calls[i].dtype = "simple" => calls[i].script = "deploy.sh"

\* C17 as stated: every Deployment row written through an entry point has a
\* status among started, success and failed and a deployment_type among
\* blue-green and simple, whatever the trigger sent.
C17_AsStated ==
    \A i \in CallIds : \A k \in 1..Len(calls[i].rows) :
        /\ RowOf(calls[i].rows[k]).status \in {"started", "success", "failed"}
        /\ RowOf(calls[i].rows[k]).deployment_type \in {"blue-green", "simple"}

\* the calls that started an attempt on the project of call i, i included
AttemptsOn(i) ==
    {j \in CallIds : calls[j].started /\ calls[j].project_id = calls[i].project_id}

\* C18 as stated: attempts are not deduplicated.  The triggers that reached
\* one project each started an attempt of their own, whether or not another
\* attempt on that project was still running: each has its own started row and
\* its own invocation of the deployment script, and each that has ended has
\* its own terminal row after its started row.
C18_AsStated ==
    \A i \in CallIds :
        /\ (calls[i].entry \in {"manual", "deploy"} /\ calls[i].project_id # NoId)
                => calls[i].started
        /\ calls[i].started =>
            /\ calls[i].script # NULL
            /\ Len(calls[i].rows) >= 1
            /\ RowOf(calls[i].rows[1]).status = "started"
            /\ RowOf(calls[i].rows[1]).project_id = calls[i].project_id
            /\ \A j \in AttemptsOn(i) \ {i} :
                    \A k \in 1..Len(calls[i].rows), l \in 1..Len(calls[j].rows) :
                        calls[i].rows[k] # calls[j].rows[l]
            /\ Cardinality({d \in deployments :
                                /\ d.project_id = calls[i].project_id
                                /\ d.status = "started"})
                    = Cardinality(AttemptsOn(i))
            /\ calls[i].pc = "done" =>
                /\ Len(calls[i].rows) = 2
                /\ RowOf(calls[i].rows[2]).status \in {"success", "failed"}
                /\ RowOf(calls[i].rows[2]).project_id = calls[i].project_id

\* ---------------------------------------------------------------------------
\* Background deployments: the worker threads started by deploy_project and
\* add_project_form run to their end.  subprocess.run is bounded by
\* timeout=600, and both outcomes of the worker's try/except log a row, so a
\* started worker is not delayed for ever.
\* ---------------------------------------------------------------------------
SpecFair == Spec /\ WF_vars(CompleteDeploy) /\ WF_vars(CompleteInitial)

\* call i came through an entry point that hands the deployment to a worker
Background(i) ==
    IF i \in CallIds
    THEN calls[i].entry \in {"deploy", "add_form"} /\ calls[i].started
    ELSE FALSE

\* the response deploy_project (JSON) and add_project_form (redirect) give
\* once the worker is started
StartedResponse(i) == IF calls[i].entry = "deploy" THEN 200 ELSE 302

\* the worker of background call i has not ended
Waiting(i) == IF Background(i) THEN calls[i].pc = "running" ELSE FALSE

\* the worker of background call i has ended and its terminal row is recorded
Recorded(i) ==
    IF Background(i) /\ calls[i].pc = "done" /\ Len(calls[i].rows) = 2
    THEN RowOf(calls[i].rows[2]).status \in {"success", "failed"}
    ELSE FALSE

\* C19: fire and forget.  A background call has its 'deployment started'
\* response and its started row while the process has not ended; the response
\* is not changed by the end of the process, whatever its outcome; and the
\* outcome is eventually recorded as the call's terminal row.
C19_FireAndForget ==
    /\ [](\A i \in CallIds : Background(i) =>
            /\ calls[i].resp = StartedResponse(i)
            /\ Len(calls[i].rows) >= 1
            /\ RowOf(calls[i].rows[1]).status = "started"
            /\ calls[i].pc = "running" =>
                    (calls[i].proc = NoProc /\ Len(calls[i].rows) = 1))
    /\ [][\A i \in CallIds : Background(i) => calls'[i].resp = calls[i].resp]_vars
    /\ \A i \in 1..MaxCalls : Waiting(i) ~> Recorded(i)

\* C19 witness: a background deployment whose process timed out after the
\* response was given: the response is unchanged and a failed row is recorded
C19_Witness ==
    \E i \in CallIds :
        /\ Background(i)
        /\ calls[i].pc = "done"
        /\ calls[i].proc.kind = "timeout"
        /\ calls[i].resp = StartedResponse(i)
        /\ Len(calls[i].rows) = 2
        /\ RowOf(calls[i].rows[2]).status = "failed"

\* ---------------------------------------------------------------------------
\* The registry over a store that can fail.  fault says that sqlite3 raises
\* sqlite3.Error inside the method (the file cannot be opened, the disk is
\* full, the database is locked).  Each method's try/except decides what the
\* caller sees; a statement that failed leaves the rows as they were (the
\* connection's context manager rolls back).
\* ---------------------------------------------------------------------------
Outcome(db, ret, raised) == [db |-> db, ret |-> ret, raised |-> raised]

\* DatabaseManager.__init__ / init_database: except sqlite3.Error: log; raise
init_database(db, fault) == Outcome(db, NULL, fault)

\* except sqlite3.Error: return None
get_project_by_repo_name_guarded(db, repo_name, fault) ==
    Outcome(db, IF fault THEN {} ELSE get_project_by_repo_name(db, repo_name), FALSE)

\* except sqlite3.Error: return []
get_all_projects_guarded(db, fault) ==
    Outcome(db, IF fault THEN {} ELSE db.projects, FALSE)

\* except sqlite3.Error: return []
get_deployment_history_guarded(db, project_id, fault) ==
    Outcome(db, IF fault THEN {} ELSE {d \in db.deployments : d.project_id = project_id}, FALSE)

\* except sqlite3.Error: return 0
get_project_count_guarded(db, fault) ==
    Outcome(db, IF fault THEN 0 ELSE Cardinality(db.projects), FALSE)

\* except sqlite3.Error: return 0
get_deployment_count_guarded(db, fault) ==
    Outcome(db, IF fault THEN 0 ELSE Cardinality(db.deployments), FALSE)

\* except sqlite3.Error: return None
add_or_update_project_guarded(db, t, repo_name, repo_url, container_id, fault) ==
    IF fault THEN Outcome(db, NoId, FALSE)
    ELSE LET r == add_or_update_project(db, t, repo_name, repo_url, NULL, container_id, NULL)
         IN  Outcome(r.db, r.ret, FALSE)

\* except sqlite3.Error: log only
log_deployment_guarded(db, t, project_id, status, container_id, fault) ==
    IF fault THEN Outcome(db, NULL, FALSE)
    ELSE Outcome(log_deployment(db, t, project_id, status, NULL, <<>>, container_id, NULL, "blue-green"), NULL, FALSE)

\* except sqlite3.Error: return False
delete_project_guarded(db, project_id, fault) ==
    IF fault THEN Outcome(db, FALSE, FALSE)
    ELSE LET r == delete_project(db, project_id) IN Outcome(r.db, r.ret, FALSE)

\* except sqlite3.Error: return 0
delete_deployment_history_guarded(db, project_id, fault) ==
    IF fault THEN Outcome(db, 0, FALSE)
    ELSE LET r == delete_deployment_history(db, project_id) IN Outcome(r.db, r.ret, FALSE)

\* the last call made on the store: its kind, whether the store failed in it,
\* what came back, and the rows before it
StoreCall(n, op, kind, fault, o) ==
    [n |-> n, op |-> op, kind |-> kind, fault |-> fault, ret |-> o.ret,
     raised |-> o.raised, before |-> DB]

StoreCalls == IF rcall = <<>> THEN 0 ELSE rcall[1].n

Called(op, kind, fault, o) ==
    /\ StoreCalls < MaxOps
    /\ rcall' = <<StoreCall(StoreCalls + 1, op, kind, fault, o)>>
    /\ SetDB(o.db)
    /\ UNCHANGED <<vcall, secret, now, calls, threads, compose, deploy_log>>

StoreOpen ==
    \E fault \in BOOLEAN :
        Called("init_database", "open", fault, init_database(DB, fault))

StoreLookup ==
    \E fault \in BOOLEAN, name \in Names :
        Called("get_project_by_repo_name", "read", fault,
               get_project_by_repo_name_guarded(DB, name, fault))

StoreList ==
    \E fault \in BOOLEAN :
        \/ Called("get_all_projects", "list", fault, get_all_projects_guarded(DB, fault))
        \/ \E pid \in RegProjectIds :
                Called("get_deployment_history", "list", fault,
                       get_deployment_history_guarded(DB, pid, fault))

StoreTally ==
    \E fault \in BOOLEAN :
        \/ Called("get_project_count", "count", fault, get_project_count_guarded(DB, fault))
        \/ Called("get_deployment_count", "count", fault,
                  get_deployment_count_guarded(DB, fault))

StoreUpsert ==
    \E fault \in BOOLEAN, name \in Names, cid \in {NULL, "c1"} :
        Called("add_or_update_project", "write", fault,
               add_or_update_project_guarded(DB, now, name, UrlOf(name), cid, fault))

StoreLog ==
    \E fault \in BOOLEAN, pid \in RegProjectIds, status \in {"started", "success"} :
        Called("log_deployment", "write", fault,
               log_deployment_guarded(DB, now, pid, status, NULL, fault))

StoreDelete ==
    \E fault \in BOOLEAN, pid \in RegProjectIds :
        \/ Called("delete_project", "delete", fault, delete_project_guarded(DB, pid, fault))
        \/ Called("delete_deployment_history", "purge", fault,
                  delete_deployment_history_guarded(DB, pid, fault))

NextStore ==
    \/ StoreOpen
    \/ StoreLookup
    \/ StoreList
    \/ StoreTally
    \/ StoreUpsert
    \/ StoreLog
    \/ StoreDelete

SpecStore == InitRegistry /\ [][NextStore]_vars

\* the store failed in the last call
Faulted == rcall # <<>> /\ rcall[1].fault

\* C20 as stated: a storage fault in a registry operation, opening and
\* initialising the store included, is never raised to the caller: a lookup
\* answers absence, a listing the empty list, a count 0, a delete a failure
\* indicator, and the stored rows are as they were before the call.
C20_AsStated ==
    Faulted =>
        /\ ~rcall[1].raised
        /\ DB = rcall[1].before
        /\ rcall[1].kind \in {"read", "list"} => rcall[1].ret = {}
        /\ rcall[1].kind \in {"count", "purge"} => rcall[1].ret = 0
        /\ rcall[1].kind = "delete" => rcall[1].ret = FALSE

\* ---------------------------------------------------------------------------
\* The registry's queries.  A result is a list; where ORDER BY leaves the
\* order of two rows open (equal deploy_time) SQLite may give either, so a
\* query is modelled by the set of lists it may return.
\* ---------------------------------------------------------------------------

\* ORDER BY deploy_time DESC: the orderings of rows by non-increasing time
RECURSIVE OrderByTimeDesc(_)
OrderByTimeDesc(rows) ==
    IF rows = {} THEN {<<>>}
    ELSE UNION {{<<d>> \o rest : rest \in OrderByTimeDesc(rows \ {d})} :
                    d \in {x \in rows : \A y \in rows : y.deploy_time <= x.deploy_time}}

\* LIMIT n (a negative n is no limit in SQLite)
Limit(list, n) == IF n < 0 \/ n >= Len(list) THEN list ELSE SubSeq(list, 1, n)

\* variant: a history that ignores the project
get_deployment_history_all_projects(db, project_id, limit) ==
    {Limit(l, limit) : l \in OrderByTimeDesc(db.deployments)}

\* SELECT * FROM deployments WHERE project_id = ? ORDER BY deploy_time DESC LIMIT ?
get_deployment_history(db, project_id, limit) ==
    {Limit(l, limit) :
        l \in OrderByTimeDesc({d \in db.deployments : d.project_id = project_id})}

\* a row of deployments d JOIN projects p ON d.project_id = p.id
Joined(d, p) ==
    [id |-> d.id, project_id |-> d.project_id, status |-> d.status,
     deploy_time |-> d.deploy_time, commit_hash |-> d.commit_hash,
     error_message |-> d.error_message, container_id |-> d.container_id,
     deployment_uuid |-> d.deployment_uuid, deployment_type |-> d.deployment_type,
     repo_name |-> p.repo_name]

\* variant: a join that pairs every deployment with every project
get_recent_deployments_cross_join(db, limit) ==
    {Limit(l, limit) :
        l \in OrderByTimeDesc({Joined(d, p) : d \in db.deployments, p \in db.projects})}

\* SELECT d.*, p.repo_name FROM deployments d JOIN projects p
\*   ON d.project_id = p.id ORDER BY d.deploy_time DESC LIMIT ?
get_recent_deployments(db, limit) ==
    {Limit(l, limit) :
        l \in OrderByTimeDesc(UNION {{Joined(d, p) : p \in {q \in db.projects : q.id = d.project_id}} :
                                        d \in db.deployments})}

\* the last query: what was asked, and the list that came back
Query(op, pid, limit, ret) == [op |-> op, pid |-> pid, limit |-> limit, ret |-> ret]

Limits == 0..MaxLimit

Wrote(db) ==
    /\ SetDB(db)
    /\ rcall' = <<>>
    /\ UNCHANGED <<vcall, secret, now, calls, threads, compose, deploy_log>>

\* the answer to a query is kept until the next write; a further query before
\* that write would read the same rows and is not taken
Asked(q) ==
    /\ rcall = <<>>
    /\ rcall' = <<q>>
    /\ UNCHANGED <<vcall, secret, projects, deployments, seqProjects,
                   seqDeployments, now, calls, threads, compose, deploy_log>>

QueryAddProject ==
    /\ seqProjects < Cardinality(RegProjectIds)
    /\ \E name \in Names :
            Wrote(add_or_update_project(DB, now, name, UrlOf(name), NULL, NULL, NULL).db)

QueryLog ==
    /\ seqDeployments < MaxRows
    /\ \E pid \in RegProjectIds :
            Wrote(log_deployment(DB, now, pid, "success", NULL, <<>>, NULL, NULL, "blue-green"))

QueryDeleteProject ==
    \E pid \in RegProjectIds :
        /\ get_project_by_id(DB, pid) # {}
        /\ Wrote(delete_project(DB, pid).db)

QueryHistory ==
    \E pid \in RegProjectIds, limit \in Limits :
        \E ret \in get_deployment_history(DB, pid, limit) :
            Asked(Query("get_deployment_history", pid, limit, ret))

QueryRecent ==
    \E limit \in Limits :
        \E ret \in get_recent_deployments(DB, limit) :
            Asked(Query("get_recent_deployments", NoId, limit, ret))

NextQuery ==
    \/ QueryAddProject
    \/ QueryLog
    \/ QueryDeleteProject
    \/ QueryHistory
    \/ QueryRecent
    \/ Tick

SpecQuery == InitRegistry /\ [][NextQuery]_vars

\* the query just answered
AskedNow(op) == rcall # <<>> /\ rcall[1].op = op

\* the rows of a list, and whether the list is by non-increasing deploy_time
RowsIn(list) == {list[k] : k \in 1..Len(list)}
NonIncreasing(list) ==
    \A k \in 1..Len(list), l \in 1..Len(list) :
        k < l => list[k].deploy_time >= list[l].deploy_time

\* C21: get_deployment_history(project_id, limit) returns rows of that project
\* only, each once, at most limit of them, by non-increasing deploy_time, and
\* they are the limit most recent rows of the project: as many as the limit
\* allows, and no row left out is more recent than a row returned.
C21_DeploymentHistory ==
    AskedNow("get_deployment_history") =>
        LET q == rcall[1]
            mine == {d \in deployments : d.project_id = q.pid}
        IN  /\ RowsIn(q.ret) \subseteq mine
            /\ Cardinality(RowsIn(q.ret)) = Len(q.ret)
            /\ Len(q.ret) <= q.limit
            /\ Len(q.ret) = IF Cardinality(mine) < q.limit THEN Cardinality(mine) ELSE q.limit
            /\ NonIncreasing(q.ret)
            /\ \A out \in mine \ RowsIn(q.ret) : \A in \in RowsIn(q.ret) :
                    out.deploy_time <= in.deploy_time

\* C21 witness: a project with rows of two times, another project's row, and
\* a history cut by the limit to the most recent row
C21_Witness ==
    /\ AskedNow("get_deployment_history")
    /\ rcall[1].limit = 1
    /\ Len(rcall[1].ret) = 1
    /\ \E d \in deployments : d.project_id = rcall[1].pid /\ d.deploy_time < rcall[1].ret[1].deploy_time
    /\ \E d \in deployments : d.project_id # rcall[1].pid

\* the deployments whose project exists: the rows the join can give
Joinable == {d \in deployments : get_project_by_id(DB, d.project_id) # {}}

\* C22: get_recent_deployments(limit) returns rows of all projects by
\* non-increasing deploy_time, each a Deployment row once, as many as the limit
\* allows and none left out more recent than one returned, and each carries as
\* repo_name the repo_name of the Project whose id is the row's project_id.
C22_RecentDeployments ==
    AskedNow("get_recent_deployments") =>
        LET q == rcall[1] IN
            /\ NonIncreasing(q.ret)
            /\ Cardinality({r.id : r \in RowsIn(q.ret)}) = Len(q.ret)
            /\ Len(q.ret) = IF Cardinality(Joinable) < q.limit
                            THEN Cardinality(Joinable) ELSE q.limit
            /\ \A r \in RowsIn(q.ret) :
                    /\ \E d \in Joinable : r = Joined(d, [repo_name |-> r.repo_name])
                    /\ \E p \in projects : p.id = r.project_id /\ p.repo_name = r.repo_name
                    /\ \A p \in projects : p.repo_name = r.repo_name => p.id = r.project_id
                    /\ \A d \in Joinable :
                            d.id \notin {x.id : x \in RowsIn(q.ret)}
                                => d.deploy_time <= r.deploy_time

\* C22 witness: two projects, and a result with a row of each under its own name
C22_Witness ==
    /\ AskedNow("get_recent_deployments")
    /\ Cardinality(projects) = 2
    /\ \E r1 \in RowsIn(rcall[1].ret), r2 \in RowsIn(rcall[1].ret) :
            /\ r1.project_id # r2.project_id
            /\ r1.repo_name # r2.repo_name

\* C23: the two deletes are independent.  delete_project(p) removes the
\* Project row with id p and nothing else: every other Project row and every
\* Deployment row stays as it is.  delete_deployment_history(p) removes the
\* Deployment rows with project_id p and nothing else: every Project row and
\* every other project's Deployment rows stay as they are.
C23_DeleteIndependence ==
    [][/\ (IsOp /\ OpNow.op = "delete_project") =>
            /\ projects' = {p \in projects : p.id # OpNow.pid}
            /\ deployments' = deployments
       /\ (IsOp /\ OpNow.op = "delete_deployment_history") =>
            /\ deployments' = {d \in deployments : d.project_id # OpNow.pid}
            /\ projects' = projects
      ]_vars

\* C23 witness: a project with a recorded deployment has just been deleted,
\* and its Deployment row is still there
C23_Witness ==
    /\ Len(rcall) = 2
    /\ rcall[1].op = "log_deployment_status"
    /\ rcall[2].op = "delete_project"
    /\ rcall[2].pid = rcall[1].pid
    /\ rcall[2].ret = 1
    /\ \A p \in projects : p.id # rcall[2].pid
    /\ \E d \in deployments : d.project_id = rcall[2].pid

\* C24 as stated: referential integrity.  In every reachable state every
\* Deployment row's project_id is the id of an existing Project row.
C24_AsStated ==
    \A d \in deployments : \E p \in projects : p.id = d.project_id

\* ---------------------------------------------------------------------------
\* The compose transformer (DockerComposeModifier).  A document is what
\* yaml.safe_load gives: a field is absent, a list or a mapping; a mapping
\* keeps the order of its keys.  Names are sequences of characters.
\* ---------------------------------------------------------------------------
Absent == [kind |-> "absent", items |-> <<>>]
ListOf(items) == [kind |-> "list", items |-> items]
DictOf(items) == [kind |-> "dict", items |-> items]

WebProxy == "web-proxy"

\* str.lower() of one character: "U+0130" (capital I with dot above) becomes
\* two characters
Lower(c) ==
    CASE c = "A" -> <<"a">>
      [] c = "Z" -> <<"z">>
      [] c = "U+0130" -> <<"i", "U+0307">>
      [] OTHER -> <<c>>

RECURSIVE LowerAll(_)
LowerAll(str) == IF str = <<>> THEN <<>> ELSE Lower(Head(str)) \o LowerAll(Tail(str))

\* the characters of [a-z0-9-] among those of the model
Plain == {"a", "i", "z", "0", "9", "-"}

\* re.sub(r'[^a-z0-9-]', '-', s)
Dashed(str) == [k \in 1..Len(str) |-> IF str[k] \in Plain THEN str[k] ELSE "-"]

\* variant: a subdomain that is not lower-cased
SubdomainAsWritten(project_name, service_name) ==
    Dashed(project_name \o <<"-">> \o service_name)

\* subdomain = f"{self.project_name}-{service_name}".lower(), then re.sub
Subdomain(project_name, service_name) ==
    Dashed(LowerAll(project_name \o <<"-">> \o service_name))

\* a label "key=value"; the router and service labels carry the subdomain,
\* the service label the port
Label(key, sub, value, port) == [key |-> key, sub |-> sub, value |-> value, port |-> port]
Plainly(key, value) == Label(key, <<>>, value, 0)
EnableLabel == Plainly("traefik.enable", "true")

\* a value of a mapping-form label: a YAML string, or a YAML boolean, which
\* f"{key}={value}" prints as True or False
Scalar(isBool, text) == [isBool |-> isBool, text |-> text]
Formatted(v) == IF v.isBool THEN (IF v.text = "true" THEN "True" ELSE "False") ELSE v.text

\* a piece of text: a run of digits, or something else
Digits(n) == [digits |-> TRUE, n |-> n]
Other == [digits |-> FALSE, n |-> 0]

\* a port entry: a string (its parts between the colons, each a sequence of
\* pieces), an integer, a mapping with or without target, or something else
PortString(parts) == [form |-> "str", parts |-> parts, n |-> 0, hasTarget |-> FALSE]
PortInt(n) == [form |-> "int", parts |-> <<>>, n |-> n, hasTarget |-> FALSE]
PortLong(hasTarget, n) == [form |-> "long", parts |-> <<>>, n |-> n, hasTarget |-> hasTarget]
PortOther == [form |-> "other", parts |-> <<>>, n |-> 0, hasTarget |-> FALSE]

NoPort == -1

\* re.findall(r'\d+', text)[0], or NoPort when there is no digit
RECURSIVE FirstNumber(_)
FirstNumber(text) ==
    IF text = <<>> THEN NoPort
    ELSE IF Head(text).digits THEN Head(text).n ELSE FirstNumber(Tail(text))

\* the text _extract_and_remove_ports takes for the container port
ContainerPortText(m) ==
    CASE m.form = "str" -> IF Len(m.parts) > 1 THEN m.parts[2] ELSE m.parts[1]
      [] m.form = "int" -> <<Digits(m.n)>>
      [] m.form = "long" -> <<Digits(IF m.hasTarget THEN m.n ELSE 80)>>

\* for port_mapping in ports: ... exposed_ports.append(int(port_num[0]))
RECURSIVE ExposedPorts(_)
ExposedPorts(ports) ==
    IF ports = <<>> THEN <<>>
    ELSE LET m == Head(ports)
             n == IF m.form = "other" THEN NoPort ELSE FirstNumber(ContainerPortText(m))
         IN  (IF n = NoPort THEN <<>> ELSE <<n>>) \o ExposedPorts(Tail(ports))

\* variant: the ports are read and left in place
extract_and_remove_ports_keep(service_config) ==
    [config |-> service_config,
     exposed_ports |-> IF service_config.ports.kind = "absent" THEN <<>>
                       ELSE ExposedPorts(service_config.ports.items)]

\* _extract_and_remove_ports: the numbers read, and the service without ports
extract_and_remove_ports(service_config) ==
    IF service_config.ports.kind = "absent"
    THEN [config |-> service_config, exposed_ports |-> <<>>]
    ELSE [config |-> [service_config EXCEPT !.ports = Absent],
          exposed_ports |-> ExposedPorts(service_config.ports.items)]

\* a value int() accepts, and one it refuses (ValueError / TypeError)
Num(n) == [int |-> TRUE, n |-> n]
NotNum == [int |-> FALSE, n |-> 0]

\* an entry of environment: "VAR=value" in a list (or a non-string entry),
\* VAR: value in a mapping
EnvEntry(isStr, var, value) == [isStr |-> isStr, var |-> var, value |-> value]

port_env_vars == <<"PORT", "HTTP_PORT", "SERVER_PORT", "APP_PORT", "WEB_PORT">>
PortVars == {port_env_vars[k] : k \in 1..Len(port_env_vars)}

\* list form: for env_var in env_vars: for port_var in port_env_vars:
\*   if env_var.startswith(f"{port_var}="): try: return int(...)
RECURSIVE PortFromEnvList(_)
PortFromEnvList(entries) ==
    IF entries = <<>> THEN NoPort
    ELSE LET e == Head(entries)
         IN  IF e.isStr /\ e.var \in PortVars /\ e.value.int THEN e.value.n
             ELSE PortFromEnvList(Tail(entries))

\* mapping form: for port_var in port_env_vars: if port_var in env_vars:
\*   try: return int(env_vars[port_var])
RECURSIVE PortFromEnvDict(_, _)
PortFromEnvDict(entries, k) ==
    IF k > Len(port_env_vars) THEN NoPort
    ELSE LET hits == {j \in 1..Len(entries) :
                        entries[j].var = port_env_vars[k] /\ entries[j].value.int}
         IN  IF hits # {} THEN entries[CHOOSE j \in hits : TRUE].value.n
             ELSE PortFromEnvDict(entries, k + 1)

PortFromEnvironment(environment) ==
    CASE environment.kind = "list" -> PortFromEnvList(environment.items)
      [] environment.kind = "dict" -> PortFromEnvDict(environment.items, 1)
      [] OTHER -> NoPort

\* if exposed and len(exposed) > 0: try: return int(exposed[0])
PortFromExpose(expose) ==
    IF expose.kind = "list" /\ expose.items # <<>> /\ expose.items[1].int
    THEN expose.items[1].n
    ELSE NoPort

\* str.lower() of a word of an image name
LowerWord(w) ==
    CASE w = "NGINX" -> "nginx"
      [] w = "Node" -> "node"
      [] w = "Tomcat" -> "tomcat"
      [] OTHER -> w

\* 'word' in image.lower()
InImage(image, word) == \E k \in 1..Len(image.items) : LowerWord(image.items[k]) = word

PortFromImage(image) ==
    IF image.kind = "absent" THEN NoPort
    ELSE IF InImage(image, "nginx") THEN 80
    ELSE IF InImage(image, "apache") THEN 80
    ELSE IF InImage(image, "node") \/ InImage(image, "express") THEN 3000
    ELSE IF InImage(image, "python") \/ InImage(image, "flask") \/ InImage(image, "django") THEN 8000
    ELSE IF InImage(image, "tomcat") THEN 8080
    ELSE NoPort

\* _detect_port_from_service: the port, or NoPort for None
detect_port_from_service(service_config) ==
    LET env == PortFromEnvironment(service_config.environment)
        exp == PortFromExpose(service_config.expose)
    IN  IF env # NoPort THEN env
        ELSE IF exp # NoPort THEN exp
        ELSE PortFromImage(service_config.image)

\* the Traefik labels of a service
traefik_labels(project_name, subdomain, port) ==
    << EnableLabel,
       Label("traefik.http.routers.rule", subdomain, "Host", 0),
       Label("traefik.http.routers.entrypoints", subdomain, "web", 0),
       Plainly("traefik.docker.network", WebProxy),
       Label("project", project_name, "", 0),
       Label("traefik.http.services.loadbalancer.server.port", subdomain, "", port) >>

\* a list of the keys of a mapping, and of its "key=value" strings
Keys(items) == [k \in 1..Len(items) |-> items[k].key]
KeyValues(items) == [k \in 1..Len(items) |-> Plainly(items[k].key, Formatted(items[k].value))]

InList(list, x) == \E k \in 1..Len(list) : list[k] = x

\* the networks of a service after lines 103-114
WithWebProxy(networks) ==
    CASE networks.kind = "absent" -> ListOf(<<>>)
      [] networks.kind = "dict" -> ListOf(Keys(networks.items) \o <<WebProxy>>)
      [] networks.kind = "list" ->
            IF InList(networks.items, WebProxy) THEN networks
            ELSE ListOf(Append(networks.items, WebProxy))
      [] OTHER -> ListOf(<<WebProxy>>)

\* the labels of a service after lines 118-127
AsLabelList(labels) ==
    CASE labels.kind = "absent" -> ListOf(<<>>)
      [] labels.kind = "dict" -> ListOf(KeyValues(labels.items))
      [] OTHER -> labels

\* _configure_service_for_traefik: the service after the call
configure_service_for_traefik(project_name, service_name, service_config) ==
    LET taken == extract_and_remove_ports(
                    [service_config EXCEPT !.networks = WithWebProxy(@),
                                           !.labels = AsLabelList(@)])
        subdomain == Subdomain(project_name, service_name)
        detected_port == detect_port_from_service(taken.config)
        port == IF taken.exposed_ports # <<>> THEN taken.exposed_ports[1]
                ELSE IF detected_port # NoPort /\ detected_port # 0 THEN detected_port
                ELSE 80
    IN  [taken.config EXCEPT
            !.labels = ListOf(@.items \o traefik_labels(project_name, subdomain, port))]

\* _add_traefik_configuration: the document after the call.  The top-level
\* networks is a mapping from names to their settings.
add_traefik_configuration(project_name, compose_data) ==
    [services |->
        [k \in 1..Len(compose_data.services) |->
            [name |-> compose_data.services[k].name,
             config |-> configure_service_for_traefik(project_name,
                            compose_data.services[k].name,
                            compose_data.services[k].config)]],
     networks |->
        [n \in DOMAIN compose_data.networks \cup {WebProxy} |->
            IF n = WebProxy THEN [external |-> TRUE] ELSE compose_data.networks[n]]]

\* ---------------------------------------------------------------------------
\* The compose files given to the transformer
\* ---------------------------------------------------------------------------
Service(networks, labels, ports, environment, expose, image) ==
    [networks |-> networks, labels |-> labels, ports |-> ports,
     environment |-> environment, expose |-> expose, image |-> image]

Key(k) == [key |-> k]
KeyValue(k, v) == [key |-> k, value |-> v]

NetworkShapes ==
    { Absent, ListOf(<<>>), ListOf(<<"db">>), ListOf(<<"db", WebProxy>>),
      DictOf(<<Key("db")>>), DictOf(<<Key("db"), Key(WebProxy)>>) }

LabelShapes ==
    { Absent, ListOf(<<>>), ListOf(<<Plainly("app", "x")>>), ListOf(<<EnableLabel>>),
      DictOf(<<KeyValue("traefik.enable", Scalar(FALSE, "true"))>>),
      DictOf(<<KeyValue("traefik.enable", Scalar(TRUE, "true"))>>) }

\* "8080:3000", "3000/tcp", "127.0.0.1:8080:3000", "abc", 5000, target: 7000, ...
PortShapes ==
    { Absent, ListOf(<<>>),
      ListOf(<<PortString(<< <<Digits(8080)>>, <<Digits(3000)>> >>)>>),
      ListOf(<<PortString(<< <<Digits(3000), Other>> >>)>>),
      ListOf(<<PortString(<< <<Digits(127), Other>>, <<Digits(8080)>>, <<Digits(3000)>> >>)>>),
      ListOf(<<PortString(<< <<Other>> >>)>>),
      ListOf(<<PortString(<< <<Other>> >>), PortInt(9000)>>),
      ListOf(<<PortOther, PortLong(TRUE, 7001)>>),
      ListOf(<<PortInt(5000), PortString(<< <<Digits(8080)>>, <<Digits(3000)>> >>)>>),
      ListOf(<<PortLong(TRUE, 7000)>>),
      ListOf(<<PortLong(FALSE, 0)>>) }

EnvShapes ==
    { Absent,
      ListOf(<<EnvEntry(TRUE, "PORT", Num(4000))>>),
      ListOf(<<EnvEntry(TRUE, "DEBUG", Num(1)), EnvEntry(TRUE, "PORT", NotNum),
               EnvEntry(TRUE, "WEB_PORT", Num(4001)), EnvEntry(TRUE, "HTTP_PORT", Num(4002))>>),
      ListOf(<<EnvEntry(FALSE, "PORT", Num(4003))>>),
      ListOf(<<EnvEntry(TRUE, "PORT", Num(0))>>),
      DictOf(<<EnvEntry(TRUE, "WEB_PORT", Num(4001)), EnvEntry(TRUE, "HTTP_PORT", Num(4002))>>),
      DictOf(<<EnvEntry(TRUE, "PORT", NotNum), EnvEntry(TRUE, "DEBUG", Num(1))>>) }

ExposeShapes ==
    { Absent, ListOf(<<>>), ListOf(<<Num(6000)>>), ListOf(<<NotNum, Num(6001)>>) }

ImageShapes ==
    { Absent, ListOf(<<"nginx", ":latest">>), ListOf(<<"NGINX">>), ListOf(<<"apache">>),
      ListOf(<<"Node", ":18">>), ListOf(<<"my", "express">>), ListOf(<<"python">>),
      ListOf(<<"flask">>), ListOf(<<"django">>), ListOf(<<"Tomcat">>), ListOf(<<"redis">>) }

\* services that differ in their networks and labels
NetworkServices ==
    {Service(n, l, Absent, Absent, Absent, Absent) : n \in NetworkShapes, l \in LabelShapes}

\* services that differ in where their port can be found
PortServices ==
    {Service(Absent, Absent, p, e, x, i) :
        p \in PortShapes, e \in EnvShapes, x \in ExposeShapes, i \in ImageShapes}

Named(name, config) == [name |-> name, config |-> config]
Web == <<"W", "e", "b">>
Db == <<"d", "b">>

\* the networks section: absent or empty, another network, web-proxy declared
\* without external
TopNetworks ==
    { <<>>, [n \in {"db"} |-> [external |-> FALSE]],
      [n \in {WebProxy} |-> [external |-> FALSE]] }

Document(services, networks) == [services |-> services, networks |-> networks]

ComposeFiles ==
    {Document(<<Named(Web, c)>>, n) : c \in PortServices, n \in {<<>>}}
        \cup {Document(<<Named(Web, c)>>, n) : c \in NetworkServices, n \in TopNetworks}
        \cup {Document(<<Named(Web, c), Named(Db, d)>>, n) :
                c \in NetworkServices, d \in NetworkServices, n \in {<<>>}}
        \cup {Document(<<>>, n) : n \in TopNetworks}

ProjectNames == {<<"M", "y">>, <<"a", "_", "9">>}

\* the file as it was, as it is, and the runs made on it
Compose(project_name, original, data, runs) ==
    [project_name |-> project_name, original |-> original, data |-> data, runs |-> runs]

InitCompose ==
    /\ vcall = VIdle
    /\ secret = NoneStr
    /\ projects = {}
    /\ deployments = {}
    /\ seqProjects = 0
    /\ seqDeployments = 0
    /\ now = 0
    /\ calls = <<>>
    /\ rcall = <<>>
    /\ threads = <<>>
    /\ deploy_log = <<>>
    /\ \E project_name \in ProjectNames, file \in ComposeFiles :
            compose = Compose(project_name, file, file, 0)

\* modify_compose_file: load, transform, write back
ModifyComposeFile ==
    /\ compose.runs < MaxRuns
    /\ compose' = [compose EXCEPT
                        !.data = add_traefik_configuration(compose.project_name, @),
                        !.runs = @ + 1]
    /\ UNCHANGED <<vcall, secret, projects, deployments, seqProjects,
                   seqDeployments, now, calls, rcall, threads, deploy_log>>

NextCompose == ModifyComposeFile

SpecCompose == InitCompose /\ [][NextCompose]_vars

\* how often x is in a list
Count(list, x) == Cardinality({k \in 1..Len(list) : list[k] = x})

\* the services of the file, by position, as they were and as they are
ServiceIds == 1..Len(compose.data.services)
Was(k) == compose.original.services[k].config
Is(k) == compose.data.services[k].config

\* the port announced for a service: that of its last server.port label
BackendPort(config) == config.labels.items[Len(config.labels.items)].port

\* C25 as stated: the transformer is idempotent.  After one run, and after a
\* second run on the output of the first, web-proxy is in the networks section
\* and exactly once in each service's network list, and traefik.enable=true is
\* exactly once in each service's label list.
C25_AsStated ==
    compose.runs \in {1, 2} =>
        /\ WebProxy \in DOMAIN compose.data.networks
        /\ \A k \in ServiceIds :
            /\ Is(k).networks.kind = "list"
            /\ Count(Is(k).networks.items, WebProxy) = 1
            /\ Is(k).labels.kind = "list"
            /\ Count(Is(k).labels.items, EnableLabel) = 1

\* the networks a service named before the run
NetworksOf(config) ==
    CASE config.networks.kind = "list" ->
            {config.networks.items[j] : j \in 1..Len(config.networks.items)}
      [] config.networks.kind = "dict" ->
            {config.networks.items[j].key : j \in 1..Len(config.networks.items)}
      [] OTHER -> {}

\* C26 as stated: after one run the networks section declares web-proxy as
\* external, and every service's networks is a list with web-proxy exactly
\* once and with every network the service had before, whether the service
\* had no networks, a list or a mapping, with or without web-proxy in it.
C26_AsStated ==
    compose.runs = 1 =>
        /\ WebProxy \in DOMAIN compose.data.networks
        /\ compose.data.networks[WebProxy].external
        /\ \A k \in ServiceIds :
            /\ Is(k).networks.kind = "list"
            /\ Count(Is(k).networks.items, WebProxy) = 1
            /\ \A n \in NetworksOf(Was(k)) : InList(Is(k).networks.items, n)

\* C27: after one run no service has a ports field, whatever the entries of
\* ports were (strings, integers, long-form mappings), and when a number can
\* be read from the removed mappings the port announced for the service is the
\* first such number.
C27_PortsRemoved ==
    compose.runs = 1 =>
        \A k \in ServiceIds :
            /\ Is(k).ports.kind = "absent"
            /\ (Was(k).ports.kind = "list" /\ ExposedPorts(Was(k).ports.items) # <<>>) =>
                    BackendPort(Is(k)) = ExposedPorts(Was(k).ports.items)[1]

\* C27 witness: a service that published "8080:3000" and 5000 has no ports
\* after the run and is announced on a port read from them
C27_Witness ==
    /\ compose.runs = 1
    /\ \E k \in ServiceIds :
        /\ Was(k).ports.kind = "list"
        /\ Len(Was(k).ports.items) = 2
        /\ Was(k).ports.items[1].form = "int"
        /\ Was(k).ports.items[2].form = "str"
        /\ Is(k).ports.kind = "absent"
        /\ BackendPort(Is(k)) = 5000

\* ---------------------------------------------------------------------------
\* The subdomain derivation alone, on every pair of names of the bounded sets
\* ---------------------------------------------------------------------------
NameChars == {"a", "A", "0", "-", "_", " ", "U+0130"}
NameStrings == SeqsUpTo(NameChars, MaxName)

\* a derivation: the names, the subdomain of the last run and of the run before
Derivation(project_name, service_name, subdomain, before, runs) ==
    [project_name |-> project_name, service_name |-> service_name,
     subdomain |-> subdomain, before |-> before, runs |-> runs]

InitSubdomain ==
    /\ vcall = VIdle
    /\ secret = NoneStr
    /\ projects = {}
    /\ deployments = {}
    /\ seqProjects = 0
    /\ seqDeployments = 0
    /\ now = 0
    /\ calls = <<>>
    /\ rcall = <<>>
    /\ threads = <<>>
    /\ deploy_log = <<>>
    /\ \E project_name \in NameStrings, service_name \in NameStrings :
            compose = Derivation(project_name, service_name, <<>>, <<>>, 0)

DeriveSubdomain ==
    /\ compose.runs < MaxRuns
    /\ compose' = [compose EXCEPT
                        !.before = compose.subdomain,
                        !.subdomain = Subdomain(compose.project_name, compose.service_name),
                        !.runs = @ + 1]
    /\ UNCHANGED <<vcall, secret, projects, deployments, seqProjects,
                   seqDeployments, now, calls, rcall, threads, deploy_log>>

NextSubdomain == DeriveSubdomain

SpecSubdomain == InitSubdomain /\ [][NextSubdomain]_vars

\* C28: the subdomain is the lower-cased project-service string with every
\* character outside [a-z0-9-] replaced by '-': it has the length of that
\* string, agrees with it wherever that string has a character of [a-z0-9-],
\* has '-' elsewhere, consists of characters of [a-z0-9-] only, and is the
\* same on every run.
C28_Subdomain ==
    compose.runs >= 1 =>
        LET whole == LowerAll(compose.project_name \o <<"-">> \o compose.service_name)
        IN  /\ Len(compose.subdomain) = Len(whole)
            /\ \A k \in 1..Len(whole) :
                /\ compose.subdomain[k] \in Plain
                /\ whole[k] \in Plain => compose.subdomain[k] = whole[k]
                /\ whole[k] \notin Plain => compose.subdomain[k] = "-"
            /\ \A k \in 1..Len(compose.subdomain) :
                    compose.subdomain[k] \notin {"A", "Z", "_", " ", "U+0130", "U+0307"}
            /\ compose.runs >= 2 => compose.subdomain = compose.before

\* C28 witness: project "A_" and service "0" give "a--0", twice
C28_Witness ==
    /\ compose.runs = 2
    /\ compose.project_name = <<"A", "_">>
    /\ compose.service_name = <<"0">>
    /\ compose.subdomain = <<"a", "-", "-", "0">>
    /\ compose.before = compose.subdomain

\* the container port a mapping names: the number in the last part of a
\* "host:container" string, a bare integer, the target of a long-form mapping
ContainerPort(m) ==
    CASE m.form = "str" -> FirstNumber(m.parts[Len(m.parts)])
      [] m.form = "int" -> m.n
      [] m.form = "long" -> IF m.hasTarget THEN m.n ELSE NoPort
      [] OTHER -> NoPort

\* the container ports of the mappings that name one, in order
RECURSIVE ContainerPorts(_)
ContainerPorts(ports) ==
    IF ports = <<>> THEN <<>>
    ELSE (IF ContainerPort(Head(ports)) = NoPort THEN <<>> ELSE <<ContainerPort(Head(ports))>>)
            \o ContainerPorts(Tail(ports))

\* C29 as stated: when a service has a port mapping from which a number can be
\* parsed, the announced backend port is the container port of the first such
\* mapping, whatever its environment, expose list and image say.
C29_AsStated ==
    compose.runs = 1 =>
        \A k \in ServiceIds :
            (Was(k).ports.kind = "list" /\ ContainerPorts(Was(k).ports.items) # <<>>) =>
                BackendPort(Is(k)) = ContainerPorts(Was(k).ports.items)[1]

\* the values int() accepts among the recognised port variables of a service
EnvPorts(environment) ==
    IF environment.kind \in {"list", "dict"}
    THEN {environment.items[j].value.n :
            j \in {i \in 1..Len(environment.items) :
                        /\ (environment.items[i].isStr \/ environment.kind = "dict")
                        /\ environment.items[i].var \in PortVars
                        /\ environment.items[i].value.int}}
    ELSE {}

\* the default of an image name: nginx or apache 80, node or express 3000,
\* python, flask or django 8000, tomcat 8080
ImageDefault(image) ==
    IF image.kind = "absent" THEN NoPort
    ELSE IF \E w \in {"nginx", "apache"} : InImage(image, w) THEN 80
    ELSE IF \E w \in {"node", "express"} : InImage(image, w) THEN 3000
    ELSE IF \E w \in {"python", "flask", "django"} : InImage(image, w) THEN 8000
    ELSE IF InImage(image, "tomcat") THEN 8080
    ELSE NoPort

\* C30 as stated: for a service without usable port mappings the backend port
\* is the value of a recognised port environment variable; else the first
\* entry of expose; else the default of the image name; else 80.  An earlier
\* rule that yields a port wins over a later one.
C30_AsStated ==
    compose.runs = 1 =>
        \A k \in ServiceIds :
            (Was(k).ports.kind = "absent" \/ ExposedPorts(Was(k).ports.items) = <<>>) =>
                IF EnvPorts(Was(k).environment) # {}
                THEN BackendPort(Is(k)) \in EnvPorts(Was(k).environment)
                ELSE IF Was(k).expose.kind = "list" /\ Was(k).expose.items # <<>>
                            /\ Was(k).expose.items[1].int
                THEN BackendPort(Is(k)) = Was(k).expose.items[1].n
                ELSE IF ImageDefault(Was(k).image) # NoPort
                THEN BackendPort(Is(k)) = ImageDefault(Was(k).image)
                ELSE BackendPort(Is(k)) = 80

\* ---------------------------------------------------------------------------
\* modify_compose_file and the file on disk.  The file is missing, text that
\* YAML refuses, empty, or a document; a document has a services key or not,
\* and the key holds a mapping, a mapping with a service that has no body, a
\* list, or nothing.  A write that fails after open(path, 'w') leaves what had
\* been written by then: nothing, or a part of the document.
\* ---------------------------------------------------------------------------
NoDocument == Document(<<>>, <<>>)
File(kind, services, doc) == [kind |-> kind, services |-> services, doc |-> doc]
Missing == File("missing", "absent", NoDocument)
Unparsable == File("garbage", "absent", NoDocument)
EmptyFile == File("empty", "absent", NoDocument)
Truncated == File("partial", "absent", NoDocument)

\* what the call made of the file, and what it returned
Modified(file, ret) == [file |-> file, ret |-> ret]

\* the faults of the environment: none, the read fails, the file cannot be
\* opened for writing, the write fails after the file was opened
FileFaults == {"none", "read", "open_w", "write"}

\* the outcomes of modify_compose_file(file) under a fault
modify_compose_file(project_name, file, fault) ==
    IF file.kind = "missing" THEN {Modified(file, FALSE)}
    ELSE IF fault = "read" \/ file.kind \in {"garbage", "partial"} THEN {Modified(file, FALSE)}
    ELSE IF file.kind = "empty" THEN {Modified(file, FALSE)}
    ELSE IF file.services \in {"null", "list", "null_service"} THEN {Modified(file, FALSE)}
    ELSE LET modified_data == add_traefik_configuration(project_name, file.doc)
         IN  IF fault = "open_w" THEN {Modified(file, FALSE)}
             ELSE IF fault = "write"
             THEN {Modified(EmptyFile, FALSE), Modified(Truncated, FALSE)}
             ELSE {Modified(File("doc", "mapping", modified_data), TRUE)}

\* the documents on disk
FileDocuments ==
    {Document(<<Named(Web, c)>>, n) : c \in NetworkServices, n \in TopNetworks}

Files ==
    {Missing, Unparsable, EmptyFile}
        \cup {File("doc", "mapping", d) : d \in FileDocuments}
        \cup {File("doc", k, Document(<<>>, n)) :
                k \in {"absent", "null", "list", "null_service"}, n \in TopNetworks}

\* the file before the last call, the file now, the last result and the calls made
OnDisk(project_name, before, file, ret, fault, runs) ==
    [project_name |-> project_name, before |-> before, file |-> file, ret |-> ret,
     fault |-> fault, runs |-> runs]

InitFile ==
    /\ vcall = VIdle
    /\ secret = NoneStr
    /\ projects = {}
    /\ deployments = {}
    /\ seqProjects = 0
    /\ seqDeployments = 0
    /\ now = 0
    /\ calls = <<>>
    /\ rcall = <<>>
    /\ threads = <<>>
    /\ deploy_log = <<>>
    /\ \E project_name \in ProjectNames, file \in Files :
            compose = OnDisk(project_name, file, file, FALSE, "none", 0)

CallModify ==
    /\ compose.runs < MaxRuns
    /\ \E fault \in FileFaults :
        \E m \in modify_compose_file(compose.project_name, compose.file, fault) :
            compose' = OnDisk(compose.project_name, compose.file, m.file, m.ret,
                              fault, compose.runs + 1)
    /\ UNCHANGED <<vcall, secret, projects, deployments, seqProjects,
                   seqDeployments, now, calls, rcall, threads, deploy_log>>

NextFile == CallModify

SpecFile == InitFile /\ [][NextFile]_vars

\* C31 as stated: when the file is missing, cannot be parsed, is empty, or has
\* no usable services collection (the key is absent or does not hold a
\* mapping), modify_compose_file returns False.
C31_AsStated ==
    (/\ compose.runs >= 1
     /\ \/ compose.before.kind \in {"missing", "garbage", "partial", "empty"}
        \/ compose.before.kind = "doc" /\ compose.before.services \in {"absent", "null", "list"})
        => compose.ret = FALSE

\* C32 as stated: no partial write.  When modify_compose_file returns False
\* the file is what it was before the call; when it returns True the file
\* holds the transformed document.
C32_AsStated ==
    compose.runs >= 1 =>
        /\ compose.ret = FALSE => compose.file = compose.before
        /\ compose.ret = TRUE =>
            /\ compose.before.kind = "doc"
            /\ compose.file = File("doc", "mapping",
                    add_traefik_configuration(compose.project_name, compose.before.doc))

\* call i is a webhook or a manual deployment whose script has exited cleanly
FallbackCase(i) ==
    /\ calls[i].entry \in {"webhook", "manual"}
    /\ calls[i].pc = "done"
    /\ calls[i].proc.kind = "exit0"

\* C33: the log file is a fallback.  An identifier found in the process output
\* is the one recorded on the success row, whatever the log file holds; when
\* both are found in the output the log file has no effect at all; an
\* identifier absent from the output and from a readable log stays absent; and
\* when the log file cannot be read the attempt still ends with a success row,
\* carrying what the output gave.
C33_LogFallback ==
    \A i \in CallIds :
        FallbackCase(i) =>
            LET out == ParseOutput(calls[i].proc)
                row == RowOf(calls[i].rows[2])
            IN  /\ Len(calls[i].rows) = 2
                /\ row.status = "success"
                /\ Truthy(out.container_id) => row.container_id = out.container_id
                /\ Truthy(out.deployment_uuid) => row.deployment_uuid = out.deployment_uuid
                /\ ~calls[i].log.readable =>
                        /\ row.container_id = out.container_id
                        /\ row.deployment_uuid = out.deployment_uuid
                /\ (calls[i].log.readable /\ calls[i].log.lines = <<>>) =>
                        /\ row.container_id = out.container_id
                        /\ row.deployment_uuid = out.deployment_uuid

\* C33 witness: the output gave the container id only, the log file holds
\* both identifiers: the row has the container id of the output and the uuid
\* of the log
C33_Witness ==
    \E i \in CallIds :
        /\ FallbackCase(i)
        /\ ParseOutput(calls[i].proc) = Markers("c2", NULL)
        /\ calls[i].log.readable
        /\ calls[i].log.lines # <<>>
        /\ RowOf(calls[i].rows[2]).container_id = "c2"
        /\ RowOf(calls[i].rows[2]).deployment_uuid = "u9"



TimedOut(i) == calls[i].pc = "done" /\ calls[i].proc.kind = "timeout"
\* C34: when an attempt's timeout expires, the script and every process it
\* started are terminated before the failed row is recorded, so no process
\* of a timed-out attempt is running once the attempt is terminal
C34_AsStated ==
    \A i \in CallIds : TimedOut(i) => calls[i].left = 0

-----------------------------------------------------------------------------
(* Attempts statement by statement.  The development server handles each    *)
(* request on a thread of its own and every registry call opens and commits *)
(* its own connection, so the registry calls of two attempts interleave.    *)
(* threads holds the attempts; deploy_log is the file all scripts append to.*)

\* the identifiers the process of attempt i emits
OwnContainer(i) == <<"c1", "c2", "c3", "c4">>[i]
OwnUuid(i) == <<"u1", "u2", "u3", "u4">>[i]

\* how the process of attempt i may end: both markers printed, one, none,
\* a non-zero exit, the timeout
AttemptResults(i) ==
    { Proc("exit0", <<Line(FALSE, "CONTAINER_ID:", OwnContainer(i)), Line(FALSE, "DEPLOYMENT_UUID:", OwnUuid(i))>>, <<>>, ""),
      Proc("exit0", <<Line(FALSE, "CONTAINER_ID:", OwnContainer(i))>>, <<>>, ""),
      Proc("exit0", <<Line(FALSE, "noise", "")>>, <<>>, ""),
      Proc("nonzero", <<>>, <<>>, "boom"),
      Proc("timeout", <<>>, <<>>, "") }

\* the labelled lines a successful script leaves in logs/deploy.log
Logged(i, proc) ==
    IF proc.kind = "exit0"
    THEN <<Line(FALSE, "Primary container deployed:", OwnContainer(i)),
           Line(FALSE, "Deployment UUID:", OwnUuid(i))>>
    ELSE <<>>

Attempt(entry, name, pc) ==
    [op |-> entry, name |-> name, pc |-> pc, project_id |-> NoId,
     before |-> {}, proc |-> NoProc, m |-> Markers(NULL, NULL),
     started |-> 0, terminal |-> 0]

AttemptIds == 1..Len(threads)

Advance(i, th, db, log) ==
    /\ threads' = [threads EXCEPT ![i] = th]
    /\ SetDB(db)
    /\ deploy_log' = log
    /\ UNCHANGED <<vcall, secret, now, calls, rcall, compose>>

\* a request arrives: webhook() resolves the project with
\* get_or_create_project, manual_deploy() looks it up and answers 404
AttemptBegin ==
    /\ Len(threads) < MaxThreads
    /\ \E entry \in {"webhook", "manual"}, name \in Names :
        \E got \in {IF entry = "webhook"
                    THEN get_or_create_project(DB, now, name, UrlOf(name))
                    ELSE [db |-> DB, ret |-> get_project_by_repo_name(DB, name)]} :
            /\ threads' = Append(threads,
                    IF got.ret = {} THEN Attempt(entry, name, "done")
                    ELSE [Attempt(entry, name, "start") EXCEPT
                            !.project_id = (CHOOSE p \in got.ret : TRUE).id])
            /\ SetDB(got.db)
    /\ UNCHANGED <<vcall, secret, now, calls, rcall, compose, deploy_log>>

\* log_deployment_status(project['id'], 'started', ...), then the script is
\* invoked
AttemptStarted ==
    \E i \in AttemptIds :
        /\ threads[i].pc = "start"
        /\ \E db \in {log_deployment_status(DB, now, threads[i].project_id, "started",
                        NULL, <<>>, NULL, NULL, "blue-green")} :
            Advance(i, [threads[i] EXCEPT !.pc = "running",
                                          !.started = db.seqDeployments,
                                          !.before = projects],
                    db, deploy_log)

\* subprocess.run returns or raises; the output is scanned for the markers
AttemptProcess ==
    \E i \in AttemptIds :
        /\ threads[i].pc = "running"
        /\ \E proc \in AttemptResults(i) :
            Advance(i, [threads[i] EXCEPT
                            !.pc = IF proc.kind = "exit0" THEN "parsed" ELSE "failed",
                            !.proc = proc,
                            !.m = IF proc.kind = "exit0" THEN ParseOutput(proc) ELSE @],
                    DB, deploy_log \o Logged(i, proc))

\* if not container_id or not deployment_uuid: the tail of logs/deploy.log
AttemptFallback ==
    \E i \in AttemptIds :
        /\ threads[i].pc = "parsed"
        /\ \E m \in {LogFallback(threads[i].m, LogFile(TRUE, deploy_log))} :
            Advance(i, [threads[i] EXCEPT
                            !.m = m,
                            !.pc = IF threads[i].op = "webhook" /\ Truthy(m.container_id)
                                   THEN "info" ELSE "insert"],
                    DB, deploy_log)

\* webhook(): service.update_project_deployment_info(repo_name, container_id)
AttemptInfo ==
    \E i \in AttemptIds :
        /\ threads[i].pc = "info"
        /\ Advance(i, [threads[i] EXCEPT !.pc = "insert"],
                   update_project_deployment_info(DB, now, threads[i].name, NULL,
                        threads[i].m.container_id, NULL),
                   deploy_log)

\* log_deployment_status(..., 'success', ...): first self.db.log_deployment
AttemptInsert ==
    \E i \in AttemptIds :
        /\ threads[i].pc = "insert"
        /\ \E db \in {log_deployment(DB, now, threads[i].project_id, "success", NULL,
                        <<>>, threads[i].m.container_id,
                        threads[i].m.deployment_uuid, "blue-green")} :
            Advance(i, [threads[i] EXCEPT
                            !.terminal = db.seqDeployments,
                            !.pc = IF Truthy(threads[i].m.container_id)
                                   THEN "update" ELSE "done"],
                    db, deploy_log)

\* ... then, if status == 'success' and container_id:
\* self.db.update_project_container_id
AttemptUpdate ==
    \E i \in AttemptIds :
        /\ threads[i].pc = "update"
        /\ Advance(i, [threads[i] EXCEPT !.pc = "done"],
                   update_project_container_id(DB, now, threads[i].project_id,
                        threads[i].m.container_id),
                   deploy_log)

\* the except branches: log_deployment_status(project['id'], 'failed', ...)
AttemptFailed ==
    \E i \in AttemptIds :
        /\ threads[i].pc = "failed"
        /\ \E db \in {log_deployment_status(DB, now, threads[i].project_id, "failed",
                        NULL, <<StrOfExc(threads[i].proc)>>, NULL, NULL,
                        "blue-green")} :
            Advance(i, [threads[i] EXCEPT !.pc = "done",
                                          !.terminal = db.seqDeployments],
                    db, deploy_log)

NextAttempts ==
    \/ AttemptBegin
    \/ AttemptStarted
    \/ AttemptProcess
    \/ AttemptFallback
    \/ AttemptInfo
    \/ AttemptInsert
    \/ AttemptUpdate
    \/ AttemptFailed

SpecAttempts == InitRegistry /\ [][NextAttempts]_vars

\* the success rows of a project that carry a container_id
Carrying(p) ==
    {d \in deployments : d.project_id = p.id /\ d.status = "success"
                         /\ Truthy(d.container_id)}

AllFinished == \A i \in AttemptIds : threads[i].pc = "done"

\* C35: once all attempts of a project have finished, the Project's
\* container_id is the container_id of the most recently inserted success
\* row of the project that carries one, whatever the interleaving
C35_AsStated ==
    AllFinished =>
        \A p \in projects :
            \A d \in Carrying(p) :
                (\A e \in Carrying(p) : e.id <= d.id) => p.container_id = d.container_id

Resolving(i) ==
    /\ threads[i].op = "get_or_create_project"
    /\ threads'[i] # threads[i]
SameFields(p, q) ==
    /\ q.id = p.id
    /\ q.repo_name = p.repo_name
    /\ q.repo_url = p.repo_url
    /\ q.local_path = p.local_path
    /\ q.container_id = p.container_id
    /\ q.deployment_uuid = p.deployment_uuid
    /\ q.created_at = p.created_at
\* C36: get_or_create_project for a repo_name that has a Project row
\* changes no field of that row (repo_url, local_path, container_id,
\* deployment_uuid, created_at), also while another call creates the project
\* or records a container for it
C36_AsStated ==
    [][\A i \in ThreadIds :
        Resolving(i) =>
            \A p \in get_project_by_repo_name(DB, threads[i].name) :
                \E q \in projects' : SameFields(p, q)]_vars

Succeeded(i) ==
    /\ threads[i].pc = "done"
    /\ threads[i].proc.kind = "exit0"
    /\ threads[i].terminal # 0
\* C37: the container_id and deployment_uuid on an attempt's success row
\* were emitted by the attempt's own process, never by another attempt's,
\* also when attempts of different projects run at once and logs/deploy.log
\* supplies a missing identifier
C37_AsStated ==
    \A i \in AttemptIds :
        Succeeded(i) =>
            LET row == RowOf(threads[i].terminal)
            IN  /\ row.container_id \in {NULL, OwnContainer(i)}
                /\ row.deployment_uuid \in {NULL, OwnUuid(i)}

\* the rows of a project that end an attempt, and those that start one
TerminalRows(project_id) ==
    {d \in deployments : d.project_id = project_id /\ d.status \in {"success", "failed"}}
StartedRows(project_id) ==
    {d \in deployments : d.project_id = project_id /\ d.status = "started"}

\* C38: the started row of an attempt is inserted before the script is
\* invoked and its terminal row only after the script has ended, so the
\* started row has the smaller id; and a project with k terminal rows has at
\* least k started rows
C38_Ordering ==
    /\ \A i \in CallIds :
        /\ calls[i].pc = "running" =>
                /\ Len(calls[i].rows) = 1
                /\ RowOf(calls[i].rows[1]).status = "started"
        /\ Len(calls[i].rows) >= 1 => RowOf(calls[i].rows[1]).status = "started"
        /\ Len(calls[i].rows) >= 2 =>
                /\ calls[i].pc = "done"
                /\ calls[i].proc.kind # "none"
                /\ RowOf(calls[i].rows[2]).status \in {"success", "failed"}
                /\ calls[i].rows[1] < calls[i].rows[2]
                /\ RowOf(calls[i].rows[1]).project_id = RowOf(calls[i].rows[2]).project_id
    /\ \A d \in deployments :
            Cardinality(TerminalRows(d.project_id)) <= Cardinality(StartedRows(d.project_id))

\* two attempts of one project have ended, the second begun before the
\* first ended
C38_Witness ==
    /\ Len(calls) = 2
    /\ \A i \in CallIds : calls[i].pc = "done" /\ Len(calls[i].rows) = 2
    /\ calls[2].rows[1] < calls[1].rows[2]
    /\ Cardinality(TerminalRows(RowOf(calls[1].rows[1]).project_id)) = 2

\* call i ends in this step, and the row it records is a failed row
EndsFailed(i) ==
    /\ calls[i].pc = "running"
    /\ calls'[i].pc = "done"
    /\ Len(calls'[i].rows) = 2
    /\ \E d \in deployments' : d.id = calls'[i].rows[2] /\ d.status = "failed"

\* C39: an attempt that ends with a failed row (timeout, non-zero exit,
\* unexpected fault) leaves every field of every Project row as it was when
\* its started row was recorded, other attempts' changes apart: from its
\* started row on, the attempt's only step is the one that ends it, and
\* that step leaves the projects alone
C39_FailedLeavesProject ==
    [][\A i \in CallIds : EndsFailed(i) => projects' = projects]_vars

\* an attempt of a project that has a container ended with a failed row
C39_Witness ==
    \E i \in CallIds :
        /\ calls[i].pc = "done"
        /\ Len(calls[i].rows) = 2
        /\ RowOf(calls[i].rows[2]).status = "failed"
        /\ calls[i].proc.kind \in {"timeout", "nonzero", "fault"}
        /\ \E p \in projects : p.id = calls[i].project_id /\ Truthy(p.container_id)

\* the Deployment rows a deleted project left behind: their project_id was
\* handed out (ids are handed out from 1 up to sqlite_sequence) and no
\* Project row has it
LeftBehind ==
    {d \in deployments : /\ d.project_id \in 1..seqProjects
                         /\ get_project_by_id(DB, d.project_id) = {}}

\* C40: project ids are never reused.  A Project row that appears has an id
\* above every id handed out before, so after delete_project(p) no upsert
\* returns p; the rows p left behind never get a Project row again, and a
\* query returns such a row only as history of the id p itself, never joined
\* to or listed under a project created later
C40_IdsNotReused ==
    /\ [](rcall # <<>> =>
            \A r \in RowsIn(rcall[1].ret) : \A d \in LeftBehind :
                r.id = d.id => /\ rcall[1].op = "get_deployment_history"
                               /\ rcall[1].pid = d.project_id)
    /\ [][/\ seqProjects' >= seqProjects
          /\ \A q \in projects' :
                get_project_by_id(DB, q.id) = {} => q.id > seqProjects
          /\ \A d \in LeftBehind : \A q \in projects' : q.id # d.project_id
         ]_vars

\* a project was deleted and left a row behind, a project was created after
\* it, and the recent deployments were asked for with rows of both recorded
C40_Witness ==
    /\ AskedNow("get_recent_deployments")
    /\ LeftBehind # {}
    /\ \E q \in projects :
        /\ \A d \in LeftBehind : q.id > d.project_id
        /\ \E r \in RowsIn(rcall[1].ret) : r.project_id = q.id

=============================================================================
